---- MODULE Spec2Model ----
(***************************************************************************)
(* Model of the MCP adapter scripts of openwebui-mcpo-demo:                *)
(*   src/tools/mcp-ambari-api.py        the cluster-management bridge      *)
(*   src/tools/mcp-linux-filesystem.py  the filesystem listing bridge      *)
(*                                                                         *)
(* A text is a sequence of lines and a line is a sequence of string        *)
(* tokens: the literal pieces of the f-string and the interpolated values, *)
(* in order.  The leading word of a text (up to its first blank) is a      *)
(* token of its own, so that "begins with Error:" is a test on the first   *)
(* token.  A JSON value is a tagged record (see JNull .. JObj).            *)
(*                                                                         *)
(* The remote API is an input: each call of the request helper draws its   *)
(* outcome (transport failure, status, body) from the sets Outcomes(kind). *)
(* Success bodies are null, a non-object, an object without the expected   *)
(* keys, or an object with them; they carry no "error" member, which the   *)
(* management API never sends with 200/202.                                *)
(***************************************************************************)
EXTENDS Integers, Sequences, FiniteSets, TLC

VARIABLES
    config,     \* startup configuration, module globals AMBARI_*
    pc,         \* per host slot: "idle", "call" (awaiting the helper), "done"
    inv,        \* per slot: the running invocation [tool, arg, lbl, loc, req]
    log,        \* per slot: the helper calls of the invocation, in order
    result,     \* per slot: what the invocation returned to the host
    fsDir,      \* the directory the filesystem bridge is asked to list
    fsResult    \* what list_directory_entries returned

vars == <<config, pc, inv, log, result, fsDir, fsResult>>

----------------------------------------------------------------------------
(* Bounds *)

\* longest "items" list a response body carries
MaxItems == 2
\* most entries os.listdir returns
MaxEntries == 2

----------------------------------------------------------------------------
(* JSON values and the Python operations the tools apply to them *)

EmptyMap == [k \in {} |-> 0]

JNull == [t |-> "null"]
JStr(s) == [t |-> "str", s |-> s]
JNum(n) == [t |-> "num", n |-> n]
JList(xs) == [t |-> "list", items |-> xs]
JObj(m) == [t |-> "obj", m |-> m]

IsObj(j) == j.t = "obj"

\* key in dict
Has(j, k) == k \in DOMAIN j.m

\* dict.get(key, default)
Get(j, k, d) == IF Has(j, k) THEN j.m[k] ELSE d

\* truth value of a Python object
Truthy(j) ==
    CASE j.t = "null" -> FALSE
      [] j.t = "str" -> j.s # ""
      [] j.t = "num" -> j.n # 0
      [] j.t = "list" -> j.items # <<>>
      [] j.t = "obj" -> DOMAIN j.m # {}

\* str(value), as an f-string interpolates it
Str(j) ==
    CASE j.t = "null" -> "None"
      [] j.t = "str" -> j.s
      [] j.t = "num" -> ToString(j.n)
      [] j.t = "list" -> "[...]"
      [] j.t = "obj" -> "{...}"

\* "=" * n
Rule(n) == "=" \o ToString(n)

----------------------------------------------------------------------------
(* Startup configuration: src/tools/mcp-ambari-api.py lines 34-41 *)

\* credentials the environment can supply; the second is not ASCII
Passwords == {"admin", "non-ascii-secret"}

AMBARI_CLUSTER_NAME == config.cluster

AMBARI_API_BASE_URL == <<"http://", config.host, ":", config.port, "/api/v1">>

\* auth_string.encode('ascii') succeeds
AsciiEncodable(user, pass) == user # "non-ascii-secret" /\ pass # "non-ascii-secret"

----------------------------------------------------------------------------
(* The request helper: src/tools/mcp-ambari-api.py lines 47-84 *)

\* status codes the helper takes as success (line 77)
SuccessStatuses == {200, 202}

\* {"error": diagnostic}
Err(diag) == JObj([error |-> JStr(diag)])

\* a request that carries a payload even when the caller gave no data
HttpRequestAlwaysPayload(endpoint, method, data) ==
    [method |-> method,
     url |-> AMBARI_API_BASE_URL \o endpoint,
     headers |-> {"Authorization", "Content-Type"},
     body |-> IF Truthy(data) THEN data ELSE JStr("null")]

\* the HTTP request session.request sends (lines 64-76); a payload is attached
\* only when data is truthy (line 73)
HttpRequest(endpoint, method, data) ==
    [method |-> method,
     url |-> AMBARI_API_BASE_URL \o endpoint,
     headers |-> {"Authorization", "Content-Type"},
     body |-> IF Truthy(data) THEN data ELSE JNull]

\* a helper that closes its session only when the request got a response
RequestAttemptLeaking(endpoint, method, data, o) ==
    IF o.k = "encode"
    THEN [raised |-> TRUE, exc |-> o.msg, value |-> JNull, sent |-> <<>>,
          events |-> <<>>]
    ELSE IF o.k = "transport"
    THEN [raised |-> TRUE, exc |-> o.msg, value |-> JNull,
          sent |-> <<HttpRequest(endpoint, method, data)>>,
          events |-> <<"enter_session">>]
    ELSE [raised |-> o.status \in SuccessStatuses /\ o.parse # "ok",
          exc |-> o.msg,
          value |-> IF o.status \in SuccessStatuses
                    THEN (IF o.parse = "ok" THEN o.body ELSE JNull)
                    ELSE Err("HTTP " \o ToString(o.status) \o ": " \o o.text),
          sent |-> <<HttpRequest(endpoint, method, data)>>,
          events |-> <<"enter_session", "enter_response",
                       "exit_response", "exit_session">>]

\* a helper that takes every 2xx status as success
RequestAttemptAny2xx(endpoint, method, data, o) ==
    IF o.k # "response"
    THEN [raised |-> TRUE, exc |-> o.msg, value |-> JNull,
          sent |-> IF o.k = "encode" THEN <<>>
                   ELSE <<HttpRequest(endpoint, method, data)>>,
          events |-> <<>>]
    ELSE IF o.status >= 200 /\ o.status < 300
    THEN [raised |-> o.parse # "ok", exc |-> o.msg, value |-> o.body,
          sent |-> <<HttpRequest(endpoint, method, data)>>, events |-> <<>>]
    ELSE [raised |-> FALSE, exc |-> "",
          value |-> Err("HTTP " \o ToString(o.status) \o ": " \o o.text),
          sent |-> <<HttpRequest(endpoint, method, data)>>, events |-> <<>>]

\* The body of the helper's try block (lines 60-81) under outcome o of its
\* environment.  raised/exc: an exception left the block; value: what the
\* block returned; sent: the HTTP requests issued; events: the client-session
\* and response scopes entered and left (async with leaves on every path).
RequestAttempt(endpoint, method, data, o) ==
    IF o.k = "encode"
    THEN \* line 61 raises before any session exists
         [raised |-> TRUE, exc |-> o.msg, value |-> JNull, sent |-> <<>>,
          events |-> <<>>]
    ELSE IF o.k = "transport"
    THEN \* session.request raises inside the session scope (line 76)
         [raised |-> TRUE, exc |-> o.msg, value |-> JNull,
          sent |-> <<HttpRequest(endpoint, method, data)>>,
          events |-> <<"enter_session", "exit_session">>]
    ELSE IF o.status \in SuccessStatuses
    THEN IF o.parse = "ok"
         THEN \* line 78
              [raised |-> FALSE, exc |-> "", value |-> o.body,
               sent |-> <<HttpRequest(endpoint, method, data)>>,
               events |-> <<"enter_session", "enter_response",
                            "exit_response", "exit_session">>]
         ELSE \* response.json() raises (line 78)
              [raised |-> TRUE, exc |-> o.msg, value |-> JNull,
               sent |-> <<HttpRequest(endpoint, method, data)>>,
               events |-> <<"enter_session", "enter_response",
                            "exit_response", "exit_session">>]
    ELSE \* lines 80-81
         [raised |-> FALSE, exc |-> "",
          value |-> Err("HTTP " \o ToString(o.status) \o ": " \o o.text),
          sent |-> <<HttpRequest(endpoint, method, data)>>,
          events |-> <<"enter_session", "enter_response",
                       "exit_response", "exit_session">>]

\* One call of the helper: the try block, and the except clause of lines
\* 83-84 that turns every exception into an error value.
make_ambari_request(endpoint, method, data, o) ==
    LET a == RequestAttempt(endpoint, method, data, o)
    IN  IF a.raised
        THEN [a EXCEPT !.raised = FALSE,
                       !.value = Err("Request failed: " \o a.exc)]
        ELSE a

----------------------------------------------------------------------------
(* Outcomes of one helper call *)

NoBody == JNull

EncodeFailure == [k |-> "encode", status |-> 0, text |-> "", parse |-> "ok",
                  body |-> NoBody, msg |-> "'ascii' codec can't encode"]

TransportFailures ==
    {[k |-> "transport", status |-> 0, text |-> "", parse |-> "ok",
      body |-> NoBody, msg |-> m] : m \in {"", "Connection refused"}}

\* statuses the helper does not take as success, other 2xx codes among them
OtherStatuses == {201, 204, 404}

StatusFailures ==
    {[k |-> "response", status |-> s, text |-> x, parse |-> "ok",
      body |-> JObj(EmptyMap), msg |-> ""] :
        s \in OtherStatuses, x \in {"", "boom"}}

ParseFailures ==
    {[k |-> "response", status |-> s, text |-> "<html>", parse |-> "fail",
      body |-> NoBody, msg |-> "Attempt to decode JSON"] : s \in SuccessStatuses}

Success(s, b) == [k |-> "response", status |-> s, text |-> "", parse |-> "ok",
                  body |-> b, msg |-> ""]

\* the helper call failed: no 200/202 response with a JSON body
Failed(o) == o.k # "response" \/ o.status \notin SuccessStatuses \/ o.parse # "ok"

\* the HTTP request returned a non-success status or failed in transport
HttpFailed(o) ==
    \/ o.k = "transport"
    \/ o.k = "response" /\ o.status \notin SuccessStatuses

----------------------------------------------------------------------------
(* Tool invocations as coroutines.  A tool runs from one await of the      *)
(* helper to the next; a segment ends by awaiting a helper call ("req"),   *)
(* by returning a text ("ret") or with an exception ("raise").             *)

NoReq == [method |-> "", endpoint |-> <<>>, data |-> JNull, kind |-> ""]

NoLoc == [lines |-> <<>>, idx |-> 0, tag |-> ""]

\* make_ambari_request(endpoint, method=..., data=...); kind names the
\* resource the endpoint addresses, which decides the bodies it can answer
Request(endpoint, method, data, kind) ==
    [method |-> method, endpoint |-> endpoint, data |-> data, kind |-> kind]

Await(req, lbl, loc) ==
    [op |-> "req", text |-> <<>>, exc |-> "", req |-> req, lbl |-> lbl, loc |-> loc]

Ret(text) ==
    [op |-> "ret", text |-> text, exc |-> "", req |-> NoReq, lbl |-> "", loc |-> NoLoc]

Raise(msg) ==
    [op |-> "raise", text |-> <<>>, exc |-> msg, req |-> NoReq, lbl |-> "", loc |-> NoLoc]

\* a tool without its except clause: the exception leaves the tool
TryExceptMissing(seg, what) == seg

\* except Exception as e: return f"Error: Exception occurred while {what} - {str(e)}"
TryExcept(seg, what) ==
    IF seg.op = "raise"
    THEN Ret(<< <<"Error:", " Exception occurred while ", what, " - ", seg.exc>> >>)
    ELSE seg

\* xs.get(...) and "k" in xs on a value that is no dict
NotADict == "object has no attribute 'get'"

\* the concatenation of a sequence of sequences
RECURSIVE Flatten(_)
Flatten(ss) == IF ss = <<>> THEN <<>> ELSE Head(ss) \o Flatten(Tail(ss))

----------------------------------------------------------------------------
(* get_cluster_info: lines 169-203 *)

get_cluster_info_body(lbl, arg, loc, r) ==
    LET cluster_name == AMBARI_CLUSTER_NAME IN
    IF lbl = "start"
    THEN Await(Request(<<"/clusters/", cluster_name>>, "GET", JNull, "cluster"),
               "response", NoLoc)
    ELSE IF ~IsObj(r) THEN Raise(NotADict)
    ELSE IF Has(r, "error")
    THEN Ret(<< <<"Error:", " Unable to retrieve information for cluster '",
                  cluster_name, "'. ", Str(r.m["error"])>> >>)
    ELSE LET cluster_info == Get(r, "Clusters", JObj(EmptyMap)) IN
         IF ~IsObj(cluster_info) THEN Raise(NotADict)
         ELSE Ret(<< <<"Information", " for cluster '", cluster_name, "':">>,
                     <<Rule(30)>>,
                     <<"Cluster Name: ",
                       Str(Get(cluster_info, "cluster_name", JStr(cluster_name)))>>,
                     <<"Version: ",
                       Str(Get(cluster_info, "version", JStr("Unknown")))>> >>
                  \o (IF Has(cluster_info, "provisioning_state")
                      THEN << <<"Provisioning State: ",
                                Str(cluster_info.m["provisioning_state"])>> >>
                      ELSE <<>>)
                  \o (IF Has(cluster_info, "security_type")
                      THEN << <<"Security Type: ",
                                Str(cluster_info.m["security_type"])>> >>
                      ELSE <<>>))

get_cluster_info(lbl, arg, loc, r) ==
    TryExcept(get_cluster_info_body(lbl, arg, loc, r),
              "retrieving cluster information")

----------------------------------------------------------------------------
(* get_cluster_services: lines 284-345 *)

\* a listing numbered from zero: enumerate(services) without its start
ServiceBlockFromZero(i, service, cluster_name) ==
    LET service_info == Get(service, "ServiceInfo", JObj(EmptyMap)) IN
    << <<ToString(i - 1), ". Service Name: ",
         Str(Get(service_info, "service_name", JStr("Unknown"))),
         " [", Str(Get(service_info, "state", JStr("Unknown"))), "]">>,
       <<"   Cluster: ",
         Str(Get(service_info, "cluster_name", JStr(cluster_name)))>>,
       <<"   API Link: ", Str(Get(service, "href", JStr("")))>>,
       <<"">> >>

\* the lines one service adds to the listing (lines 331-340)
ServiceBlock(i, service, cluster_name) ==
    LET service_info == Get(service, "ServiceInfo", JObj(EmptyMap)) IN
    << <<ToString(i), ". Service Name: ",
         Str(Get(service_info, "service_name", JStr("Unknown"))),
         " [", Str(Get(service_info, "state", JStr("Unknown"))), "]">>,
       <<"   Cluster: ",
         Str(Get(service_info, "cluster_name", JStr(cluster_name)))>>,
       <<"   API Link: ", Str(Get(service, "href", JStr("")))>>,
       <<"">> >>

\* an item on which the loop body raises: it is no dict, or its ServiceInfo is none
BadServiceItem(service) ==
    ~IsObj(service) \/ ~IsObj(Get(service, "ServiceInfo", JObj(EmptyMap)))

get_cluster_services_body(lbl, arg, loc, r) ==
    LET cluster_name == AMBARI_CLUSTER_NAME IN
    IF lbl = "start"
    THEN Await(Request(<<"/clusters/", cluster_name,
                         "/services?fields=ServiceInfo/service_name,ServiceInfo/state,ServiceInfo/cluster_name">>,
                       "GET", JNull, "services"),
               "response", NoLoc)
    ELSE IF r.t = "null"
    THEN Ret(<< <<"Error:", " Unable to retrieve service list for cluster '",
                  cluster_name, "'.">> >>)
    ELSE IF ~IsObj(r) \/ ~Has(r, "items")
    THEN \* "items" not in a list or in a dict without the key
         Ret(<< <<"No", " results: No services found in cluster '",
                  cluster_name, "'.">> >>)
    ELSE LET services == r.m["items"] IN
         IF ~Truthy(services)
         THEN Ret(<< <<"No", " results: No services installed in cluster '",
                       cluster_name, "'.">> >>)
         ELSE IF services.t # "list" THEN Raise(NotADict)
         ELSE IF \E i \in 1..Len(services.items) : BadServiceItem(services.items[i])
         THEN Raise(NotADict)
         ELSE Ret(<< <<"Service", " list for cluster '", cluster_name, "' (",
                       ToString(Len(services.items)), " services):">>,
                     <<Rule(50)>> >>
                  \o Flatten([i \in 1..Len(services.items) |->
                                ServiceBlock(i, services.items[i], cluster_name)]))

get_cluster_services(lbl, arg, loc, r) ==
    TryExcept(get_cluster_services_body(lbl, arg, loc, r),
              "retrieving service list")

----------------------------------------------------------------------------
(* get_service_status: lines 347-405 *)

\* state_descriptions (lines 388-397)
state_descriptions ==
    [STARTED |-> "Service is running and operational",
     INSTALLED |-> "Service is installed but not running",
     STARTING |-> "Service is in the process of starting",
     STOPPING |-> "Service is in the process of stopping",
     INSTALLING |-> "Service is being installed",
     INSTALL_FAILED |-> "Service installation failed",
     MAINTENANCE |-> "Service is in maintenance mode",
     UNKNOWN |-> "Service state cannot be determined"]

\* a lookup that describes the tags outside the table too
DescriptionLineWithDefault(state, table) ==
    IF state.t = "str" /\ state.s \in DOMAIN table
    THEN << <<"Description: ", table[state.s]>> >>
    ELSE << <<"Description: ", "Service state cannot be determined">> >>

\* if state in table: result_lines.append(f"Description: {table[state]}")
DescriptionLine(state, table) ==
    IF state.t = "str" /\ state.s \in DOMAIN table
    THEN << <<"Description: ", table[state.s]>> >>
    ELSE <<>>

get_service_status_body(lbl, service_name, loc, r) ==
    LET cluster_name == AMBARI_CLUSTER_NAME IN
    IF lbl = "start"
    THEN Await(Request(<<"/clusters/", cluster_name, "/services/", service_name,
                         "?fields=ServiceInfo/state,ServiceInfo/service_name,ServiceInfo/cluster_name">>,
                       "GET", JNull, "service"),
               "response", NoLoc)
    ELSE IF r.t = "null"
    THEN Ret(<< <<"Error:", " Unable to retrieve status for service '",
                  service_name, "' in cluster '", cluster_name, "'.">> >>)
    ELSE IF ~IsObj(r) THEN Raise(NotADict)
    ELSE LET service_info == Get(r, "ServiceInfo", JObj(EmptyMap)) IN
         IF ~IsObj(service_info) THEN Raise(NotADict)
         ELSE LET state == Get(service_info, "state", JStr("Unknown")) IN
              Ret(<< <<"Service", " Status for '", service_name, "':">>,
                     <<Rule(40)>>,
                     <<"Service Name: ",
                       Str(Get(service_info, "service_name", JStr(service_name)))>>,
                     <<"Cluster: ",
                       Str(Get(service_info, "cluster_name", JStr(cluster_name)))>>,
                     <<"Current State: ", Str(state)>> >>
                  \o DescriptionLine(state, state_descriptions))

get_service_status(lbl, service_name, loc, r) ==
    TryExcept(get_service_status_body(lbl, service_name, loc, r),
              "retrieving service status")

----------------------------------------------------------------------------
(* get_request_status: lines 868-924 *)

\* status_descriptions (lines 909-916)
status_descriptions ==
    [PENDING |-> "Request is pending execution",
     IN_PROGRESS |-> "Request is currently running",
     COMPLETED |-> "Request completed successfully",
     FAILED |-> "Request failed",
     ABORTED |-> "Request was aborted",
     TIMEDOUT |-> "Request timed out"]

\* if key in info: result_lines.append(f"{label}{info[key]}")
OptionalLine(info, key, label) ==
    IF Has(info, key) THEN << <<label, Str(info.m[key])>> >> ELSE <<>>

get_request_status_body(lbl, request_id, loc, r) ==
    LET cluster_name == AMBARI_CLUSTER_NAME IN
    IF lbl = "start"
    THEN Await(Request(<<"/clusters/", cluster_name, "/requests/", request_id>>,
                       "GET", JNull, "request"),
               "response", NoLoc)
    ELSE IF ~IsObj(r) THEN Raise(NotADict)
    ELSE IF Truthy(Get(r, "error", JNull))
    THEN Ret(<< <<"Error:", " Request '", request_id, "' not found in cluster '",
                  cluster_name, "'.">> >>)
    ELSE LET request_info == Get(r, "Requests", JObj(EmptyMap)) IN
         IF ~IsObj(request_info) THEN Raise(NotADict)
         ELSE Ret(<< <<"REQUEST", " STATUS: ", request_id>>,
                     <<"">>,
                     <<"Cluster: ", cluster_name>>,
                     <<"Request ID: ",
                       Str(Get(request_info, "id", JStr(request_id)))>>,
                     <<"Status: ",
                       Str(Get(request_info, "request_status", JStr("Unknown")))>>,
                     <<"Progress: ",
                       Str(Get(request_info, "progress_percent", JNum(0))), "%">> >>
                  \o OptionalLine(request_info, "request_context", "Context: ")
                  \o OptionalLine(request_info, "start_time", "Start Time: ")
                  \o OptionalLine(request_info, "end_time", "End Time: ")
                  \o DescriptionLine(Get(request_info, "request_status", JStr("Unknown")),
                                     status_descriptions))

get_request_status(lbl, request_id, loc, r) ==
    TryExcept(get_request_status_body(lbl, request_id, loc, r),
              "retrieving request status")

----------------------------------------------------------------------------
(* start_all_services: lines 577-654 *)

\* {"RequestInfo": {"context": ..., "operation_level": {...}}, "Body": {...}}
BulkPayload(context, cluster_name, state) ==
    JObj([RequestInfo |->
            JObj([context |-> JStr(context),
                  operation_level |-> JObj([level |-> JStr("CLUSTER"),
                                            cluster_name |-> JStr(cluster_name)])]),
          Body |-> JObj([ServiceInfo |-> JObj([state |-> JStr(state)])])])

\* an alternate payload that asks for STARTED whatever the tool
AltPayloadAlwaysStarted(state) == JObj([ServiceInfo |-> JObj([state |-> JStr("STARTED")])])

\* alt_payload (lines 624-628, 714-718)
AltPayload(state) == JObj([ServiceInfo |-> JObj([state |-> JStr(state)])])

\* a check that reads a key the helper never sets
HasErrorWrongKey(r) == Truthy(Get(r, "errors", JNull))

\* response.get("error") is truthy
HasError(r) == Truthy(Get(r, "error", JNull))

\* an existence check whose answer is not looked at
CheckIgnored(r) == FALSE

\* the existence check before a state change failed (lines 599, 678, 765, 825)
CheckFailed(r) == HasError(r)

\* lines 636-651
StartAllReport(r, cluster_name) ==
    LET request_info == Get(r, "Requests", JObj(EmptyMap)) IN
    IF ~IsObj(request_info) THEN Raise(NotADict)
    ELSE Ret(<< <<"Start", " All Services Operation Initiated:">>,
                <<Rule(50)>>,
                <<"Cluster: ", cluster_name>>,
                <<"Request ID: ", Str(Get(request_info, "id", JStr("Unknown")))>>,
                <<"Status: ", Str(Get(request_info, "status", JStr("Unknown")))>>,
                <<"Monitor URL: ", Str(Get(r, "href", JStr("")))>>,
                <<"">>,
                <<"Note: This operation may take several minutes to complete.">>,
                <<"    Use get_request_status(request_id) to track progress.">> >>)

start_all_services_body(lbl, arg, loc, r) ==
    LET cluster_name == AMBARI_CLUSTER_NAME IN
    IF lbl = "start"
    THEN Await(Request(<<"/clusters/", cluster_name>>, "GET", JNull, "cluster"),
               "check", NoLoc)
    ELSE IF ~IsObj(r) THEN Raise(NotADict)
    ELSE IF lbl = "check"
    THEN IF CheckFailed(r)
         THEN Ret(<< <<"Error:", " Cluster '", cluster_name,
                       "' not found or inaccessible. ", Str(r.m["error"])>> >>)
         ELSE Await(Request(<<"/clusters/", cluster_name, "/services">>, "PUT",
                            BulkPayload("Start All Services via MCP API",
                                        cluster_name, "STARTED"),
                            "mutation"),
                    "primary", NoLoc)
    ELSE IF lbl = "primary" /\ HasError(r)
    THEN Await(Request(<<"/clusters/", cluster_name,
                         "/services?ServiceInfo/state=INSTALLED">>, "PUT",
                       AltPayload("STARTED"), "mutation"),
               "fallback", NoLoc)
    ELSE IF lbl = "fallback" /\ HasError(r)
    THEN Ret(<< <<"Error:", " Failed to start services in cluster '",
                  cluster_name, "'. ", Str(r.m["error"])>> >>)
    ELSE StartAllReport(r, cluster_name)

start_all_services(lbl, arg, loc, r) ==
    TryExcept(start_all_services_body(lbl, arg, loc, r), "starting all services")

----------------------------------------------------------------------------
(* stop_all_services: lines 656-746 *)

\* lines 726-743
StopAllReport(r, cluster_name) ==
    LET request_info == Get(r, "Requests", JObj(EmptyMap)) IN
    IF ~IsObj(request_info) THEN Raise(NotADict)
    ELSE Ret(<< <<"STOP", " ALL SERVICES INITIATED">>,
                <<"">>,
                <<"Cluster: ", cluster_name>>,
                <<"Request ID: ", Str(Get(request_info, "id", JStr("Unknown")))>>,
                <<"Status: ", Str(Get(request_info, "status", JStr("Unknown")))>>,
                <<"Monitor URL: ", Str(Get(r, "href", JStr("")))>>,
                <<"">>,
                <<"Note: This operation may take several minutes to complete.">>,
                <<"    Use get_request_status(request_id) to track progress.">> >>)

\* a tool that goes on to the state change whatever the list holds
NoneRunningIgnored(r) == FALSE

\* services = services_response.get("items", []); not services (lines 688-689)
NoneRunning(r) == ~Truthy(Get(r, "items", JList(<<>>)))

stop_all_services_body(lbl, arg, loc, r) ==
    LET cluster_name == AMBARI_CLUSTER_NAME IN
    IF lbl = "start"
    THEN Await(Request(<<"/clusters/", cluster_name>>, "GET", JNull, "cluster"),
               "check", NoLoc)
    ELSE IF ~IsObj(r) THEN Raise(NotADict)
    ELSE IF lbl = "check"
    THEN IF CheckFailed(r)
         THEN Ret(<< <<"Error:", " Cluster '", cluster_name,
                       "' not found or inaccessible. ", Str(r.m["error"])>> >>)
         ELSE Await(Request(<<"/clusters/", cluster_name,
                              "/services?ServiceInfo/state=STARTED">>, "GET",
                            JNull, "started_services"),
                    "services", NoLoc)
    ELSE IF lbl = "services"
    THEN IF HasError(r)
         THEN Ret(<< <<"Error", " retrieving services: ", Str(r.m["error"])>> >>)
         ELSE IF NoneRunning(r)
         THEN Ret(<< <<"No", " services are currently running. All services are already stopped.">> >>)
         ELSE Await(Request(<<"/clusters/", cluster_name, "/services">>, "PUT",
                            BulkPayload("Stop All Services via MCP API",
                                        cluster_name, "INSTALLED"),
                            "mutation"),
                    "primary", NoLoc)
    ELSE IF lbl = "primary" /\ HasError(r)
    THEN Await(Request(<<"/clusters/", cluster_name,
                         "/services?ServiceInfo/state=STARTED">>, "PUT",
                       AltPayload("INSTALLED"), "mutation"),
               "fallback", NoLoc)
    ELSE IF lbl = "fallback" /\ HasError(r)
    THEN Ret(<< <<"Error:", " Failed to stop services in cluster '",
                  cluster_name, "'. ", Str(r.m["error"])>> >>)
    ELSE StopAllReport(r, cluster_name)

stop_all_services(lbl, arg, loc, r) ==
    TryExcept(stop_all_services_body(lbl, arg, loc, r), "stopping all services")

----------------------------------------------------------------------------
(* start_service: lines 748-806 *)

\* {"RequestInfo": {"context": ...}, "Body": {"ServiceInfo": {"state": ...}}}
ServicePayload(context, state) ==
    JObj([RequestInfo |-> JObj([context |-> JStr(context)]),
          Body |-> JObj([ServiceInfo |-> JObj([state |-> JStr(state)])])])

\* lines 786-803, 846-863
ServiceReport(title, r, cluster_name, service_name) ==
    LET request_info == Get(r, "Requests", JObj(EmptyMap)) IN
    IF ~IsObj(request_info) THEN Raise(NotADict)
    ELSE Ret(<< <<title, " SERVICE: ", service_name>>,
                <<"">>,
                <<"Cluster: ", cluster_name>>,
                <<"Service: ", service_name>>,
                <<"Request ID: ", Str(Get(request_info, "id", JStr("Unknown")))>>,
                <<"Status: ", Str(Get(request_info, "status", JStr("Unknown")))>>,
                <<"Monitor URL: ", Str(Get(r, "href", JStr("")))>>,
                <<"">>,
                <<"Use get_request_status(request_id) to track progress.">> >>)

start_service_body(lbl, service_name, loc, r) ==
    LET cluster_name == AMBARI_CLUSTER_NAME
        service_endpoint == <<"/clusters/", cluster_name, "/services/", service_name>>
    IN
    IF lbl = "start"
    THEN Await(Request(service_endpoint, "GET", JNull, "service"), "check", NoLoc)
    ELSE IF ~IsObj(r) THEN Raise(NotADict)
    ELSE IF lbl = "check"
    THEN IF CheckFailed(r)
         THEN Ret(<< <<"Error:", " Service '", service_name,
                       "' not found in cluster '", cluster_name, "'.">> >>)
         ELSE Await(Request(service_endpoint, "PUT",
                            ServicePayload("Start Service " \o service_name
                                           \o " via MCP API", "STARTED"),
                            "mutation"),
                    "put", NoLoc)
    ELSE IF HasError(r)
    THEN Ret(<< <<"Error:", " Failed to start service '", service_name,
                  "' in cluster '", cluster_name, "'.">> >>)
    ELSE ServiceReport("START", r, cluster_name, service_name)

start_service(lbl, service_name, loc, r) ==
    TryExcept(start_service_body(lbl, service_name, loc, r),
              "starting service '" \o service_name \o "'")

----------------------------------------------------------------------------
(* stop_service: lines 808-866 *)

stop_service_body(lbl, service_name, loc, r) ==
    LET cluster_name == AMBARI_CLUSTER_NAME
        service_endpoint == <<"/clusters/", cluster_name, "/services/", service_name>>
    IN
    IF lbl = "start"
    THEN Await(Request(service_endpoint, "GET", JNull, "service"), "check", NoLoc)
    ELSE IF ~IsObj(r) THEN Raise(NotADict)
    ELSE IF lbl = "check"
    THEN IF CheckFailed(r)
         THEN Ret(<< <<"Error:", " Service '", service_name,
                       "' not found in cluster '", cluster_name, "'.">> >>)
         ELSE Await(Request(service_endpoint, "PUT",
                            ServicePayload("Stop Service " \o service_name
                                           \o " via MCP API", "INSTALLED"),
                            "mutation"),
                    "put", NoLoc)
    ELSE IF HasError(r)
    THEN Ret(<< <<"Error:", " Failed to stop service '", service_name,
                  "' in cluster '", cluster_name, "'.">> >>)
    ELSE ServiceReport("STOP", r, cluster_name, service_name)

stop_service(lbl, service_name, loc, r) ==
    TryExcept(stop_service_body(lbl, service_name, loc, r),
              "stopping service '" \o service_name \o "'")

----------------------------------------------------------------------------
(* get_service_details: lines 504-575 *)

\* a component on which the loop of lines 559-562 raises
BadComponent(component) ==
    ~IsObj(component) \/ ~IsObj(Get(component, "ServiceComponentInfo", JObj(EmptyMap)))

\* lines 557-564
DetailComponents(components) ==
    IF Truthy(components)
    THEN << <<"\nComponents (", ToString(Len(components.items)), " total):">> >>
         \o [i \in 1..Len(components.items) |->
               <<"   ", ToString(i), ". ",
                 Str(Get(Get(components.items[i], "ServiceComponentInfo",
                             JObj(EmptyMap)),
                         "component_name", JStr("Unknown")))>>]
    ELSE << <<"\nComponents: No components found">> >>

get_service_details_body(lbl, service_name, loc, r) ==
    LET cluster_name == AMBARI_CLUSTER_NAME IN
    IF lbl = "start"
    THEN Await(Request(<<"/clusters/", cluster_name>>, "GET", JNull, "cluster"),
               "cluster", NoLoc)
    ELSE IF lbl = "cluster"
    THEN IF r.t = "null"
         THEN Ret(<< <<"Error:", " Cluster '", cluster_name,
                       "' not found or inaccessible. Please check cluster name and Ambari server connection.">> >>)
         ELSE Await(Request(<<"/clusters/", cluster_name, "/services/", service_name,
                              "?fields=ServiceInfo,components/ServiceComponentInfo">>,
                            "GET", JNull, "service_detail"),
                    "service", NoLoc)
    ELSE IF r.t = "null"
    THEN Ret(<< <<"Error:", " Service '", service_name, "' not found in cluster '",
                  cluster_name, "'. Please check service name.">> >>)
    ELSE IF ~IsObj(r) THEN Raise(NotADict)
    ELSE LET service_info == Get(r, "ServiceInfo", JObj(EmptyMap))
             components == Get(r, "components", JList(<<>>))
         IN
         IF ~IsObj(service_info) THEN Raise(NotADict)
         ELSE IF Truthy(components)
                 /\ (components.t # "list"
                     \/ \E i \in 1..Len(components.items) :
                          BadComponent(components.items[i]))
         THEN Raise(NotADict)
         ELSE LET state == Get(service_info, "state", JStr("Unknown")) IN
              Ret(<< <<"Detailed", " Service Information:">>,
                     <<Rule(50)>>,
                     <<"Service Name: ",
                       Str(Get(service_info, "service_name", JStr(service_name)))>>,
                     <<"Cluster: ",
                       Str(Get(service_info, "cluster_name", JStr(cluster_name)))>>,
                     <<"Current State: ", Str(state)>> >>
                  \o DescriptionLine(state, state_descriptions)
                  \o DetailComponents(components)
                  \o (IF Has(service_info, "desired_configs")
                      THEN << <<"\nConfiguration: Available">> >>
                      ELSE <<>>)
                  \o << <<"\nAPI Endpoint: ",
                          Str(Get(r, "href", JStr("Not available")))>> >>)

get_service_details(lbl, service_name, loc, r) ==
    TryExcept(get_service_details_body(lbl, service_name, loc, r),
              "retrieving service details")

----------------------------------------------------------------------------
(* get_active_requests: lines 205-282 *)

\* an active set that forgets the queued requests
ActiveStatusesWithoutQueued == {"IN_PROGRESS", "PENDING", "STARTED"}

\* the status tags taken as active (line 253)
ActiveStatuses == {"IN_PROGRESS", "PENDING", "QUEUED", "STARTED"}

\* an item on which the loops of lines 250-254 and 262-268 raise
BadRequestItem(request) ==
    ~IsObj(request) \/ ~IsObj(Get(request, "Requests", JObj(EmptyMap)))

\* lines 251-253
IsActive(request) ==
    LET status == Get(Get(request, "Requests", JObj(EmptyMap)),
                      "request_status", JStr(""))
    IN  status.t = "str" /\ status.s \in ActiveStatuses

\* lines 248-254: the active requests, in response order
RECURSIVE ActiveRequests(_)
ActiveRequests(all_requests) ==
    IF all_requests = <<>> THEN <<>>
    ELSE (IF IsActive(Head(all_requests)) THEN <<Head(all_requests)>> ELSE <<>>)
         \o ActiveRequests(Tail(all_requests))

\* lines 263-275
RequestBlock(i, request) ==
    LET request_info == Get(request, "Requests", JObj(EmptyMap)) IN
    << <<ToString(i), ". Request ID: ", Str(Get(request_info, "id", JStr("Unknown")))>>,
       <<"   Status: ", Str(Get(request_info, "request_status", JStr("Unknown")))>>,
       <<"   Progress: ", Str(Get(request_info, "progress_percent", JNum(0))), "%">>,
       <<"   Context: ", Str(Get(request_info, "request_context", JStr("No context")))>>,
       <<"   Started: ", Str(Get(request_info, "start_time", JStr("Unknown")))>>,
       <<"">> >>

\* lines 243-279
ActiveRequestsReport(r, cluster_name) ==
    IF ~IsObj(r) \/ ~Has(r, "items")
    THEN Ret(<< <<"No", " active requests found in cluster '", cluster_name, "'.">> >>)
    ELSE LET all_requests == r.m["items"] IN
         IF all_requests.t # "list" THEN Raise("object is not iterable")
         ELSE IF \E i \in 1..Len(all_requests.items) :
                    BadRequestItem(all_requests.items[i])
         THEN Raise(NotADict)
         ELSE LET active_requests == ActiveRequests(all_requests.items) IN
              IF active_requests = <<>>
              THEN Ret(<< <<"No", " active requests - All operations completed in cluster '",
                            cluster_name, "'.">> >>)
              ELSE Ret(<< <<"Active", " Requests for Cluster '", cluster_name, "' (",
                            ToString(Len(active_requests)), " running):">>,
                          <<Rule(60)>> >>
                       \o Flatten([i \in 1..Len(active_requests) |->
                                     RequestBlock(i, active_requests[i])])
                       \o << <<"Tip: Use get_request_status(request_id) for detailed progress information.">> >>)

RequestFields ==
    "/requests?fields=Requests/id,Requests/request_status,Requests/request_context,Requests/start_time,Requests/progress_percent"

get_active_requests_body(lbl, arg, loc, r) ==
    LET cluster_name == AMBARI_CLUSTER_NAME IN
    IF lbl = "start"
    THEN Await(Request(<<"/clusters/", cluster_name, RequestFields,
                         "&Requests/request_status=IN_PROGRESS">>,
                       "GET", JNull, "requests"),
               "filtered", NoLoc)
    ELSE IF r.t = "null" THEN Raise("argument of type 'NoneType' is not iterable")
    ELSE IF IsObj(r) /\ Has(r, "error")
    THEN IF lbl = "filtered"
         THEN Await(Request(<<"/clusters/", cluster_name, RequestFields,
                              "&sortBy=Requests/id.desc">>,
                            "GET", JNull, "requests"),
                    "fallback", NoLoc)
         ELSE Ret(<< <<"Error:", " Unable to retrieve active requests for cluster '",
                       cluster_name, "'. ", Str(r.m["error"])>> >>)
    ELSE ActiveRequestsReport(r, cluster_name)

get_active_requests(lbl, arg, loc, r) ==
    TryExcept(get_active_requests_body(lbl, arg, loc, r),
              "retrieving active requests")

----------------------------------------------------------------------------
(* get_service_components: lines 407-502 *)

\* state_descriptions of the component loop (lines 458-466)
component_state_descriptions ==
    [STARTED |-> "Component is running",
     INSTALLED |-> "Component is installed but not running",
     STARTING |-> "Component is starting",
     STOPPING |-> "Component is stopping",
     INSTALL_FAILED |-> "Component installation failed",
     MAINTENANCE |-> "Component is in maintenance mode",
     UNKNOWN |-> "Component state is unknown"]

\* host lists are cut to their first entries (line 478)
ShownHosts == 5

\* the first n elements of a sequence: xs[:n]
Take(xs, n) == SubSeq(xs, 1, IF Len(xs) < n THEN Len(xs) ELSE n)

HostComponents(component) == Get(component, "host_components", JList(<<>>))

\* a component on which the loop body of lines 439-489 raises
BadComponentItem(component) ==
    \/ BadComponent(component)
    \/ Get(Get(component, "ServiceComponentInfo", JObj(EmptyMap)),
           "total_count", JNum(0)).t # "num"
    \/ /\ Truthy(HostComponents(component))
       /\ \/ HostComponents(component).t # "list"
          \/ \E j \in 1..Len(Take(HostComponents(component).items, ShownHosts)) :
               LET host_comp == HostComponents(component).items[j] IN
               ~IsObj(host_comp) \/ ~IsObj(Get(host_comp, "HostRoles", JObj(EmptyMap)))

\* lines 476-487
HostLines(host_components) ==
    IF Truthy(host_components)
    THEN << <<"   Hosts (", ToString(Len(host_components.items)), " instances):">> >>
         \o [j \in 1..Len(Take(host_components.items, ShownHosts)) |->
               LET host_roles == Get(host_components.items[j], "HostRoles",
                                     JObj(EmptyMap))
               IN  <<"      ", ToString(j), ". ",
                     Str(Get(host_roles, "host_name", JStr("Unknown"))), " [",
                     Str(Get(host_roles, "state", JStr("Unknown"))), "]">>]
         \o (IF Len(host_components.items) > ShownHosts
             THEN << <<"      ... and ",
                       ToString(Len(host_components.items) - ShownHosts),
                       " more hosts">> >>
             ELSE <<>>)
    ELSE << <<"   Hosts: No host assignments found">> >>

\* lines 439-489
ComponentBlock(i, component) ==
    LET comp_info == Get(component, "ServiceComponentInfo", JObj(EmptyMap))
        comp_state == Get(comp_info, "state", JStr("Unknown"))
        total_count == Get(comp_info, "total_count", JNum(0))
    IN  << <<ToString(i), ". Component: ",
             Str(Get(comp_info, "component_name", JStr("Unknown")))>>,
           <<"   State: ", Str(comp_state)>>,
           <<"   Category: ", Str(Get(comp_info, "category", JStr("Unknown")))>> >>
        \o (IF comp_state.t = "str" /\ comp_state.s \in DOMAIN component_state_descriptions
            THEN << <<"   Description: ", component_state_descriptions[comp_state.s]>> >>
            ELSE <<>>)
        \o (IF total_count.n > 0
            THEN << <<"   Instances: ",
                      Str(Get(comp_info, "started_count", JNum(0))), " started / ",
                      Str(Get(comp_info, "installed_count", JNum(0))), " installed / ",
                      Str(total_count), " total">> >>
            ELSE <<>>)
        \o HostLines(HostComponents(component))
        \o << <<"">> >>

\* sum(len(comp.get("host_components", [])) for comp in components), line 492
RECURSIVE TotalInstances(_)
TotalInstances(components) ==
    IF components = <<>> THEN 0
    ELSE (IF HostComponents(Head(components)).t = "list"
          THEN Len(HostComponents(Head(components)).items) ELSE 0)
         + TotalInstances(Tail(components))

\* the components whose state is STARTED, line 493
StartedComponents(components) ==
    Cardinality({i \in 1..Len(components) :
                   Get(Get(components[i], "ServiceComponentInfo", JObj(EmptyMap)),
                       "state", JNull) = JStr("STARTED")})

get_service_components_body(lbl, service_name, loc, r) ==
    LET cluster_name == AMBARI_CLUSTER_NAME
        none == Ret(<< <<"No", " components found for service '", service_name,
                         "' in cluster '", cluster_name, "'.">> >>)
    IN
    IF lbl = "start"
    THEN Await(Request(<<"/clusters/", cluster_name, "/services/", service_name,
                         "/components?fields=ServiceComponentInfo/component_name,ServiceComponentInfo/state,ServiceComponentInfo/category,ServiceComponentInfo/started_count,ServiceComponentInfo/installed_count,ServiceComponentInfo/total_count,host_components/HostRoles/host_name,host_components/HostRoles/state">>,
                       "GET", JNull, "components"),
               "response", NoLoc)
    ELSE IF r.t = "null"
    THEN Ret(<< <<"Error:", " Unable to retrieve components for service '",
                  service_name, "' in cluster '", cluster_name, "'.">> >>)
    ELSE IF ~IsObj(r) \/ ~Has(r, "items") THEN none
    ELSE LET components == r.m["items"] IN
         IF ~Truthy(components) THEN none
         ELSE IF components.t # "list" THEN Raise(NotADict)
         ELSE IF \E i \in 1..Len(components.items) : BadComponentItem(components.items[i])
         THEN Raise(NotADict)
         ELSE Ret(<< <<"Detailed", " Components for service '", service_name, "':">>,
                     <<Rule(60)>>,
                     <<"Total Components: ", ToString(Len(components.items))>>,
                     <<"">> >>
                  \o Flatten([i \in 1..Len(components.items) |->
                                ComponentBlock(i, components.items[i])])
                  \o << <<"Summary:">>,
                        <<"  - Components: ", ToString(Len(components.items)),
                          " total, ", ToString(StartedComponents(components.items)),
                          " started">>,
                        <<"  - Total component instances across all hosts: ",
                          ToString(TotalInstances(components.items))>> >>)

get_service_components(lbl, service_name, loc, r) ==
    TryExcept(get_service_components_body(lbl, service_name, loc, r),
              "retrieving components for service '" \o service_name \o "'")

----------------------------------------------------------------------------
(* get_service_configurations: lines 89-167 *)

\* a whitelist with a third config type for HDFS
service_config_types_three ==
    [HDFS |-> <<"hdfs-site", "core-site", "hadoop-env">>,
     YARN |-> <<"yarn-site", "core-site">>,
     HBASE |-> <<"hbase-site", "core-site">>]

\* service_config_types (lines 114-119)
service_config_types ==
    [HDFS |-> <<"hdfs-site", "core-site">>,
     YARN |-> <<"yarn-site", "core-site">>,
     HBASE |-> <<"hbase-site", "core-site">>]

\* str.upper() on the service names the host passes
Upper(name) ==
    CASE name = "hdfs" -> "HDFS"
      [] name = "Yarn" -> "YARN"
      [] name = "kafka" -> "KAFKA"
      [] OTHER -> name

\* the keys of a dict as its iteration visits them
RECURSIVE KeysOf(_)
KeysOf(S) ==
    IF S = {} THEN <<>>
    ELSE LET k == CHOOSE x \in S : TRUE IN <<k>> \o KeysOf(S \ {k})

\* data.get("items", []) if data else []  (lines 131, 144)
ItemsOf(data) == IF Truthy(data) THEN Get(data, "items", JList(<<>>)) ELSE JList(<<>>)

\* ItemsOf raises: a truthy value that is no dict
ItemsRaises(data) == Truthy(data) /\ ~IsObj(data)

\* a listing of properties that loses the last pair
PropertyLinesTruncated(item) ==
    LET properties == Get(item, "properties", JObj(EmptyMap)) IN
    IF Truthy(properties)
    THEN << <<"  Properties:">> >>
         \o [n \in 1..(Cardinality(DOMAIN properties.m) - 1) |->
               LET k == KeysOf(DOMAIN properties.m)[n] IN
               <<"    ", k, ": ", Str(properties.m[k])>>]
    ELSE << <<"  No properties found.">> >>

\* lines 149-155: the property lines of one item of the tag-scoped response
PropertyLines(item) ==
    LET properties == Get(item, "properties", JObj(EmptyMap)) IN
    IF Truthy(properties)
    THEN << <<"  Properties:">> >>
         \o [n \in 1..Cardinality(DOMAIN properties.m) |->
               LET k == KeysOf(DOMAIN properties.m)[n] IN
               <<"    ", k, ": ", Str(properties.m[k])>>]
    ELSE << <<"  No properties found.">> >>

\* lines 157-163: the attribute lines of one item
AttributeLines(item) ==
    LET prop_attrs == Get(item, "properties_attributes", JObj(EmptyMap)) IN
    IF Truthy(prop_attrs)
    THEN << <<"  Properties Attributes:">> >>
         \o Flatten([n \in 1..Cardinality(DOMAIN prop_attrs.m) |->
               LET attr_type == KeysOf(DOMAIN prop_attrs.m)[n]
                   attr_map == prop_attrs.m[attr_type]
               IN  << <<"    [", attr_type, "]">> >>
                   \o [q \in 1..Cardinality(DOMAIN attr_map.m) |->
                         LET k == KeysOf(DOMAIN attr_map.m)[q] IN
                         <<"      ", k, ": ", Str(attr_map.m[k])>>]])
    ELSE <<>>

\* an item on which the loop body of lines 148-163 raises
BadConfigItem(item) ==
    \/ ~IsObj(item)
    \/ LET properties == Get(item, "properties", JObj(EmptyMap))
           prop_attrs == Get(item, "properties_attributes", JObj(EmptyMap))
       IN  \/ Truthy(properties) /\ ~IsObj(properties)
           \/ /\ Truthy(prop_attrs)
              /\ \/ ~IsObj(prop_attrs)
                 \/ \E a \in DOMAIN prop_attrs.m : ~IsObj(prop_attrs.m[a])

\* the loop of line 127 reaches config type number idx with result_lines lines
ConfigLoop(config_types, idx, lines, cluster_name) ==
    IF idx > Len(config_types)
    THEN Ret(lines)
    ELSE Await(Request(<<"/clusters/", cluster_name, "/configurations?type=",
                         config_types[idx]>>, "GET", JNull, "config_types"),
               "type", [lines |-> lines, idx |-> idx, tag |-> ""])

get_service_configurations_body(lbl, service_name, loc, r) ==
    LET cluster_name == AMBARI_CLUSTER_NAME
        key == Upper(service_name)
        config_types == IF key \in DOMAIN service_config_types
                        THEN service_config_types[key] ELSE <<>>
        config_type == config_types[loc.idx]
    IN
    IF config_types = <<>>
    THEN Ret(<< <<"Error:", " No config types defined for service '",
                  service_name, "'.">> >>)
    ELSE IF lbl = "start"
    THEN ConfigLoop(config_types, 1,
                    << <<"Service", " Configuration for '", service_name, "':">>,
                       <<Rule(50)>>,
                       <<"Cluster: ", cluster_name>> >>,
                    cluster_name)
    ELSE IF ItemsRaises(r) THEN Raise(NotADict)
    ELSE IF lbl = "type"
    THEN LET items == ItemsOf(r) IN
         IF ~Truthy(items)
         THEN ConfigLoop(config_types, loc.idx + 1,
                         Append(loc.lines, <<"[", config_type, "] No configuration found.">>),
                         cluster_name)
         ELSE IF items.t # "list" THEN Raise("not subscriptable")
         ELSE LET latest_item == items.items[Len(items.items)] IN
              IF ~IsObj(latest_item) THEN Raise(NotADict)
              ELSE LET tag == Str(Get(latest_item, "tag", JStr("Unknown")))
                       version == Str(Get(latest_item, "version", JStr("Unknown")))
                   IN  Await(Request(<<"/clusters/", cluster_name,
                                       "/configurations?type=", config_type,
                                       "&tag=", tag>>, "GET", JNull, "config"),
                             "config",
                             [lines |-> Append(loc.lines,
                                               <<"[", config_type, "] Latest tag: ", tag,
                                                 " (version: ", version, ")">>),
                              idx |-> loc.idx, tag |-> tag])
    ELSE LET config_items == ItemsOf(r) IN
         IF ~Truthy(config_items)
         THEN ConfigLoop(config_types, loc.idx + 1,
                         Append(loc.lines, <<"  No properties found for tag ", loc.tag, ".">>),
                         cluster_name)
         ELSE IF config_items.t # "list" THEN Raise("not iterable")
         ELSE IF \E i \in 1..Len(config_items.items) : BadConfigItem(config_items.items[i])
         THEN Raise(NotADict)
         ELSE ConfigLoop(config_types, loc.idx + 1,
                         loc.lines
                         \o Flatten([i \in 1..Len(config_items.items) |->
                                       PropertyLines(config_items.items[i])
                                       \o AttributeLines(config_items.items[i])]),
                         cluster_name)

get_service_configurations(lbl, service_name, loc, r) ==
    TryExcept(get_service_configurations_body(lbl, service_name, loc, r),
              "retrieving service configurations")

----------------------------------------------------------------------------
(* What the management API can answer with 200/202, by resource *)

\* all sequences over S of length at most n
SeqsUpTo(S, n) == UNION {[1..k -> S] : k \in 0..n}

\* null, a non-object, an object without the expected keys
CommonBodies == {JNull, JList(<<>>), JObj(EmptyMap)}

ClusterBodies ==
    {JObj([Clusters |-> JObj([cluster_name |-> JStr("c1"),
                              version |-> JStr("HDP-3.1")])]),
     JObj([Clusters |-> JObj([cluster_name |-> JStr("c1"),
                              version |-> JStr("HDP-3.1"),
                              provisioning_state |-> JStr("INSTALLED"),
                              security_type |-> JStr("NONE")])]),
     JObj([Clusters |-> JNull])}

ServiceItem(name, state) ==
    JObj([ServiceInfo |-> JObj([service_name |-> JStr(name),
                                state |-> JStr(state),
                                cluster_name |-> JStr("c1")]),
          href |-> JStr("http://ambari/" \o name)])

\* list items: two services, an object without ServiceInfo, a malformed item
ServiceItems ==
    {ServiceItem("HDFS", "STARTED"), ServiceItem("YARN", "INSTALLED"),
     JObj(EmptyMap), JNull}

ServicesBodies ==
    {JObj([items |-> JList(xs)]) : xs \in SeqsUpTo(ServiceItems, MaxItems)}
    \cup {JObj([items |-> JNull])}

\* the eight tags of the description table, tags outside it, no tag
StateTags ==
    {"STARTED", "INSTALLED", "STARTING", "STOPPING", "INSTALLING",
     "INSTALL_FAILED", "MAINTENANCE", "UNKNOWN", "STOPPED", "started", "Unknown"}

ServiceBodies ==
    {JObj([ServiceInfo |-> JObj([service_name |-> JStr("HDFS"),
                                 cluster_name |-> JStr("c1"),
                                 state |-> JStr(tag)])]) : tag \in StateTags}
    \cup {JObj([ServiceInfo |-> JObj([service_name |-> JStr("HDFS")])]),
          JObj([ServiceInfo |-> JObj([state |-> JNull])]),
          JObj([ServiceInfo |-> JNull])}

RequestBodies ==
    {JObj([Requests |-> JObj([id |-> JNum(7), request_status |-> JStr(st),
                              progress_percent |-> JNum(40)])]) :
        st \in {"IN_PROGRESS", "COMPLETED", "QUEUED"}}
    \cup {JObj([Requests |-> JObj([id |-> JNum(7),
                                   request_status |-> JStr("FAILED"),
                                   request_context |-> JStr("Start HDFS"),
                                   start_time |-> JNum(1), end_time |-> JNum(2)])]),
          JObj([Requests |-> JNull])}

\* a state-change request is answered with the request it created
MutationBodies ==
    {JObj([href |-> JStr("http://ambari/requests/" \o ToString(n)),
           Requests |-> JObj([id |-> JNum(n), status |-> JStr("Accepted")])]) :
        n \in {7, 8}}
    \cup {JObj([Requests |-> JNull])}

StartedServicesBodies ==
    {JObj([items |-> JList(xs)]) :
        xs \in {<<>>, <<ServiceItem("HDFS", "STARTED")>>}}

Component(name, state, category, total, hosts) ==
    JObj([ServiceComponentInfo |->
            JObj([component_name |-> JStr(name), state |-> JStr(state),
                  category |-> JStr(category), started_count |-> JNum(1),
                  installed_count |-> JNum(0), total_count |-> total]),
          host_components |-> JList(hosts)])

Host(n) == JObj([HostRoles |-> JObj([host_name |-> JStr("host" \o ToString(n)),
                                     state |-> JStr("STARTED")])])

\* components: one host, more hosts than are shown, no ServiceComponentInfo,
\* a count that is no number, a malformed host, a malformed component
ComponentItems ==
    {Component("NAMENODE", "STARTED", "MASTER", JNum(1), <<Host(1)>>),
     Component("DATANODE", "INSTALLED", "SLAVE", JNum(ShownHosts + 1),
               [n \in 1..(ShownHosts + 1) |-> Host(n)]),
     Component("HDFS_CLIENT", "INSTALLING", "CLIENT", JNum(0), <<>>),
     Component("ZKFC", "STARTED", "SLAVE", JStr("1"), <<Host(1)>>),
     Component("JOURNALNODE", "STARTED", "SLAVE", JNum(1), <<JNull>>),
     JObj(EmptyMap), JNull}

ComponentsBodies ==
    {JObj([items |-> JList(xs)]) : xs \in SeqsUpTo(ComponentItems, MaxItems)}

DetailBodies ==
    {JObj([ServiceInfo |-> JObj([service_name |-> JStr("HDFS"),
                                 state |-> JStr("STARTED")]),
           components |-> JList(xs),
           href |-> JStr("http://ambari/HDFS")]) :
        xs \in {<<>>, <<JObj([ServiceComponentInfo |->
                               JObj([component_name |-> JStr("NAMENODE")])]),
                        JObj(EmptyMap)>>,
                <<JNull>>}}
    \cup {JObj([ServiceInfo |-> JObj([state |-> JStr("STOPPED"),
                                      desired_configs |-> JObj(EmptyMap)])]),
          JObj([ServiceInfo |-> JNull])}

RequestItem(id, status) ==
    JObj([Requests |-> JObj([id |-> JNum(id), request_status |-> JStr(status),
                             request_context |-> JStr("ctx"),
                             progress_percent |-> JNum(10),
                             start_time |-> JNum(1)])])

RequestItems ==
    {RequestItem(7, "IN_PROGRESS"), RequestItem(8, "COMPLETED"),
     RequestItem(9, "QUEUED"), JObj(EmptyMap), JNull}

RequestsBodies ==
    {JObj([items |-> JList(xs)]) : xs \in SeqsUpTo(RequestItems, MaxItems)}
    \cup {JObj([items |-> JNull])}

\* an item of the per-type listing: its tag and version, and the properties
\* that listing carries
ConfigVersion(tag, version) ==
    JObj([tag |-> JStr(tag), version |-> JNum(version),
          properties |-> JObj([stale |-> JStr("listing")])])

ConfigTypesBodies ==
    {JObj([items |-> JList(xs)]) :
        xs \in {<<>>,
                <<ConfigVersion("version1", 1)>>,
                <<ConfigVersion("version1", 1), ConfigVersion("version2", 2)>>,
                <<ConfigVersion("version2", 2), ConfigVersion("version1", 1)>>,
                <<JObj(EmptyMap)>>,
                <<JNull>>}}

ConfigBodies ==
    {JObj([items |-> JList(xs)]) :
        xs \in {<<>>,
                <<JObj([properties |-> JObj([replication |-> JStr("3")])])>>,
                <<JObj([properties |-> JObj([replication |-> JStr("3"),
                                             blocksize |-> JNum(128)]),
                        properties_attributes |->
                            JObj([final |-> JObj([replication |-> JStr("true")])])])>>,
                <<JObj(EmptyMap)>>,
                <<JNull>>}}

Bodies(kind) ==
    CommonBodies \cup
    CASE kind = "cluster" -> ClusterBodies
      [] kind = "services" -> ServicesBodies
      [] kind = "service" -> ServiceBodies
      [] kind = "request" -> RequestBodies
      [] kind = "mutation" -> MutationBodies
      [] kind = "started_services" -> StartedServicesBodies
      [] kind = "components" -> ComponentsBodies
      [] kind = "service_detail" -> DetailBodies
      [] kind = "requests" -> RequestsBodies
      [] kind = "config_types" -> ConfigTypesBodies
      [] kind = "config" -> ConfigBodies

\* 200 answers with every body of the resource; 202 (Accepted) is the answer
\* to state changes, and to the other requests with an empty object
SuccessOutcomes(kind) ==
    {Success(200, b) : b \in Bodies(kind)}
    \cup {Success(202, b) : b \in IF kind = "mutation" THEN Bodies(kind)
                                  ELSE {JObj(EmptyMap)}}

\* the outcomes of a helper call for a request of this kind: with credentials
\* that do not encode, line 61 raises on every call
Outcomes(kind) ==
    IF AsciiEncodable(config.user, config.pass)
    THEN TransportFailures \cup StatusFailures \cup ParseFailures
         \cup SuccessOutcomes(kind)
    ELSE {EncodeFailure}

----------------------------------------------------------------------------
(* The host: dispatches tool calls by name and awaits their result *)

Slots == {1, 2}

ServiceNames == {"HDFS", "hdfs", "KAFKA"}

RequestIds == {"7"}

Dispatch(tool, lbl, arg, loc, r) ==
    CASE tool = "get_cluster_info" -> get_cluster_info(lbl, arg, loc, r)
      [] tool = "get_cluster_services" -> get_cluster_services(lbl, arg, loc, r)
      [] tool = "get_service_status" -> get_service_status(lbl, arg, loc, r)
      [] tool = "get_service_components" -> get_service_components(lbl, arg, loc, r)
      [] tool = "get_service_details" -> get_service_details(lbl, arg, loc, r)
      [] tool = "get_service_configurations" ->
            get_service_configurations(lbl, arg, loc, r)
      [] tool = "get_active_requests" -> get_active_requests(lbl, arg, loc, r)
      [] tool = "get_request_status" -> get_request_status(lbl, arg, loc, r)
      [] tool = "start_service" -> start_service(lbl, arg, loc, r)
      [] tool = "stop_service" -> stop_service(lbl, arg, loc, r)
      [] tool = "start_all_services" -> start_all_services(lbl, arg, loc, r)
      [] tool = "stop_all_services" -> stop_all_services(lbl, arg, loc, r)

NoInv == [tool |-> "", arg |-> "", lbl |-> "", loc |-> NoLoc, req |-> NoReq]

NoResult == [kind |-> "none", text |-> <<>>]

\* a host that keeps the last result in one place for all its slots
ContinueSharedResult(p, tool, arg, seg, newlog) ==
    /\ log' = [log EXCEPT ![p] = newlog]
    /\ IF seg.op = "req"
       THEN /\ pc' = [pc EXCEPT ![p] = "call"]
            /\ inv' = [inv EXCEPT ![p] = [tool |-> tool, arg |-> arg, lbl |-> seg.lbl,
                                          loc |-> seg.loc, req |-> seg.req]]
            /\ result' = [result EXCEPT ![p] = NoResult]
       ELSE /\ pc' = [pc EXCEPT ![p] = "done"]
            /\ inv' = [inv EXCEPT ![p] = [tool |-> tool, arg |-> arg, lbl |-> "",
                                          loc |-> NoLoc, req |-> NoReq]]
            /\ result' = [q \in Slots |->
                            [kind |-> IF seg.op = "ret" THEN "text" ELSE "raise",
                             text |-> seg.text]]
    /\ UNCHANGED <<config, fsDir, fsResult>>

\* the invocation in slot p has run to the end of segment seg
Continue(p, tool, arg, seg, newlog) ==
    /\ log' = [log EXCEPT ![p] = newlog]
    /\ IF seg.op = "req"
       THEN /\ pc' = [pc EXCEPT ![p] = "call"]
            /\ inv' = [inv EXCEPT ![p] = [tool |-> tool, arg |-> arg, lbl |-> seg.lbl,
                                          loc |-> seg.loc, req |-> seg.req]]
            /\ result' = [result EXCEPT ![p] = NoResult]
       ELSE /\ pc' = [pc EXCEPT ![p] = "done"]
            /\ inv' = [inv EXCEPT ![p] = [tool |-> tool, arg |-> arg, lbl |-> "",
                                          loc |-> NoLoc, req |-> NoReq]]
            /\ result' = [result EXCEPT ![p] =
                            [kind |-> IF seg.op = "ret" THEN "text" ELSE "raise",
                             text |-> seg.text]]
    /\ UNCHANGED <<config, fsDir, fsResult>>

\* the host calls a tool: the tool runs to its first await, or to its return
Invoke(p, tool, arg) ==
    /\ pc[p] \in {"idle", "done"}
    /\ Continue(p, tool, arg, Dispatch(tool, "start", arg, NoLoc, JNull), <<>>)

\* the helper call slot p awaits completes under outcome o, and the tool
\* runs on to its next await or to its return
Resume(p, o) ==
    LET req == inv[p].req
        h == make_ambari_request(req.endpoint, req.method, req.data, o)
        entry == [req |-> req, o |-> o, sent |-> h.sent, events |-> h.events,
                  raised |-> h.raised, value |-> h.value]
    IN  Continue(p, inv[p].tool, inv[p].arg,
                 IF h.raised THEN Raise(h.exc)
                 ELSE Dispatch(inv[p].tool, inv[p].lbl, inv[p].arg,
                               inv[p].loc, h.value),
                 Append(log[p], entry))

\* the awaited helper call completes under some outcome of its request
HelperReturns(p) ==
    /\ pc[p] = "call"
    /\ \E o \in Outcomes(inv[p].req.kind) : Resume(p, o)

GetClusterInfo(p) == Invoke(p, "get_cluster_info", "")

GetClusterServices(p) == Invoke(p, "get_cluster_services", "")

GetServiceStatus(p) == \E s \in ServiceNames : Invoke(p, "get_service_status", s)

GetServiceComponents(p) ==
    \E s \in ServiceNames : Invoke(p, "get_service_components", s)

GetServiceDetails(p) == \E s \in ServiceNames : Invoke(p, "get_service_details", s)

GetServiceConfigurations(p) ==
    \E s \in ServiceNames : Invoke(p, "get_service_configurations", s)

GetActiveRequests(p) == Invoke(p, "get_active_requests", "")

GetRequestStatus(p) == \E id \in RequestIds : Invoke(p, "get_request_status", id)

StartService(p) == \E s \in ServiceNames : Invoke(p, "start_service", s)

StopService(p) == \E s \in ServiceNames : Invoke(p, "stop_service", s)

StartAllServices(p) == Invoke(p, "start_all_services", "")

StopAllServices(p) == Invoke(p, "stop_all_services", "")

\* a tool call of the host in slot p
Call(p) ==
    \/ GetClusterInfo(p)
    \/ GetClusterServices(p)
    \/ GetServiceStatus(p)
    \/ GetServiceComponents(p)
    \/ GetServiceDetails(p)
    \/ GetServiceConfigurations(p)
    \/ GetActiveRequests(p)
    \/ GetRequestStatus(p)
    \/ StartService(p)
    \/ StopService(p)
    \/ StartAllServices(p)
    \/ StopAllServices(p)

\* the arguments the host passes each tool
ToolArguments ==
    [get_cluster_info |-> {""}, get_cluster_services |-> {""},
     get_service_status |-> {"HDFS"}, get_service_components |-> {"HDFS"},
     get_service_details |-> {"HDFS"},
     get_service_configurations |-> {"HDFS", "KAFKA"},
     get_active_requests |-> {""}, get_request_status |-> {"7"},
     start_service |-> {"HDFS"}, stop_service |-> {"HDFS"},
     start_all_services |-> {""}, stop_all_services |-> {""}]

\* the answers the remote API gives while two invocations are in flight: a
\* refusal, or 200 with one of these bodies
Samples ==
    {JObj(EmptyMap),
     JObj([Clusters |-> JObj([cluster_name |-> JStr("c1"),
                              version |-> JStr("HDP-3.1")])]),
     JObj([items |-> JList(<<ServiceItem("HDFS", "STARTED")>>)]),
     JObj([ServiceInfo |-> JObj([service_name |-> JStr("HDFS"),
                                 cluster_name |-> JStr("c1"),
                                 state |-> JStr("STARTED")])]),
     JObj([Requests |-> JObj([id |-> JNum(7), request_status |-> JStr("IN_PROGRESS"),
                              progress_percent |-> JNum(40)])]),
     JObj([href |-> JStr("http://ambari/requests/7"),
           Requests |-> JObj([id |-> JNum(7), status |-> JStr("Accepted")])]),
     JObj([href |-> JStr("http://ambari/requests/8"),
           Requests |-> JObj([id |-> JNum(8), status |-> JStr("Accepted")])]),
     JObj([items |-> JList(<<RequestItem(7, "IN_PROGRESS")>>)]),
     JObj([items |-> JList(<<ConfigVersion("version1", 1)>>)]),
     JObj([items |-> JList(<<JObj([properties |->
                                     JObj([replication |-> JStr("3")])])>>)])}

ConcurrentOutcomes(kind) ==
    {o \in Outcomes(kind) :
        \/ o.k = "encode"
        \/ o.k = "response" /\ o.status = 404 /\ o.text = "boom"
        \/ o.k = "response" /\ o.status = 200 /\ o.parse = "ok" /\ o.body \in Samples}

\* a tool call arrives in slot p while the other slot may be in flight
ConcurrentCall(p) ==
    /\ pc[p] \in {"idle", "done"}
    /\ \E tool \in DOMAIN ToolArguments : \E arg \in ToolArguments[tool] :
          Invoke(p, tool, arg)

\* a helper call of slot p completes while the other slot may be in flight
ConcurrentReturn(p) ==
    /\ pc[p] = "call"
    /\ \E o \in ConcurrentOutcomes(inv[p].req.kind) : Resume(p, o)

Configs ==
    {[host |-> "localhost", port |-> "8080", user |-> "admin", pass |-> pw,
      cluster |-> "c1"] : pw \in Passwords}

----------------------------------------------------------------------------
(* The filesystem listing bridge: src/tools/mcp-linux-filesystem.py *)

\* the user and group databases pwd and grp read
Users == (0 :> "root") @@ (1000 :> "alice")

Groups == (0 :> "root") @@ (1000 :> "staff")

StatFailure(msg) ==
    [ok |-> FALSE, msg |-> msg, mode |-> "", nlink |-> 0, uid |-> 0, gid |-> 0,
     size |-> 0, mtime |-> ""]

StatResult(mode, nlink, uid, gid, size) ==
    [ok |-> TRUE, msg |-> "", mode |-> mode, nlink |-> nlink, uid |-> uid,
     gid |-> gid, size |-> size, mtime |-> "2024-06-01 12:34"]

\* what os.lstat can answer for an entry: a directory, a file of a user and
\* group without a name, a failure
StatOutcomes ==
    {StatResult("drwxr-xr-x", 2, 0, 0, 4096),
     StatResult("-rw-r--r--", 1, 1000, 1000, 12),
     StatResult("-rw-------", 1, 4242, 1000, 7),
     StatResult("lrwxrwxrwx", 1, 0, 4242, 3),
     StatFailure("[Errno 13] Permission denied")}

EntryNames == {"a", "b", "c"}

\* os.listdir names no entry twice
Distinct(xs) == \A i, j \in 1..Len(xs) : i # j => xs[i] # xs[j]

\* the directories list_directory_entries can be pointed at: os.listdir
\* fails, or names its entries, and each of ".", ".." and the entries has
\* an os.lstat outcome
Dirs ==
    {[listed |-> FALSE, msg |-> m, names |-> <<>>,
      stat |-> [e \in {".", ".."} |-> StatFailure(m)]] :
        m \in {"[Errno 2] No such file or directory",
               "[Errno 20] Not a directory",
               "[Errno 13] Permission denied"}}
    \cup UNION {{[listed |-> TRUE, msg |-> "", names |-> xs, stat |-> st] :
                   st \in [{".", ".."} \cup {xs[i] : i \in 1..Len(xs)} -> StatOutcomes]} :
                 xs \in {ys \in SeqsUpTo(EntryNames, MaxEntries) : Distinct(ys)}}

\* lines 62-73: the body of the per-entry try block.  pwd and grp have the
\* getpwuid and getgrgid functions wherever line 56 imports them, so the
\* hasattr tests of lines 70-71 hold and the lookups are made: they raise
\* KeyError for an id without a name
EntryAttempt(dir, entry) ==
    LET st == dir.stat[entry] IN
    IF ~st.ok
    THEN [raised |-> TRUE, exc |-> st.msg, line |-> <<>>]
    ELSE IF st.uid \notin DOMAIN Users
    THEN [raised |-> TRUE, exc |-> "getpwuid(): uid not found", line |-> <<>>]
    ELSE IF st.gid \notin DOMAIN Groups
    THEN [raised |-> TRUE, exc |-> "getgrgid(): gid not found", line |-> <<>>]
    ELSE [raised |-> FALSE, exc |-> "",
          line |-> <<st.mode, " ", ToString(st.nlink), " ", Users[st.uid], " ",
                     Groups[st.gid], " ", ToString(st.size), " ", st.mtime, " ",
                     entry>>]

\* a loop without its inner try: the failure of one entry leaves the loop
EntryLineUncaught(dir, entry) == EntryAttempt(dir, entry)

\* lines 61-75: one pass of the loop; except Exception appends the error line
EntryLine(dir, entry) ==
    LET a == EntryAttempt(dir, entry) IN
    IF a.raised
    THEN [raised |-> FALSE, exc |-> "", line |-> <<"[ERROR]", " ", entry, ": ", a.exc>>]
    ELSE a

\* the loop of lines 60-75 over the entries still to visit
RECURSIVE ListEntries(_, _, _)
ListEntries(dir, entries, acc) ==
    IF entries = <<>> THEN [raised |-> FALSE, exc |-> "", lines |-> acc]
    ELSE LET e == EntryLine(dir, Head(entries)) IN
         IF e.raised THEN [raised |-> TRUE, exc |-> e.exc, lines |-> acc]
         ELSE ListEntries(dir, Tail(entries), Append(acc, e.line))

\* the helper as its docstring has it: an empty list when listing fails
get_all_entries_in_path_EmptyOnError(dir) ==
    IF ~dir.listed
    THEN [raised |-> FALSE, exc |-> "", lines |-> <<>>]
    ELSE ListEntries(dir, <<".", "..">> \o dir.names, <<>>)

\* lines 58-78
get_all_entries_in_path(dir) ==
    LET attempt == IF ~dir.listed
                   THEN [raised |-> TRUE, exc |-> dir.msg, lines |-> <<>>]
                   ELSE ListEntries(dir, <<".", "..">> \o dir.names, <<>>)
    IN  IF attempt.raised
        THEN [raised |-> FALSE, exc |-> "",
              lines |-> << <<"[ERROR]", " ", attempt.exc>> >>]
        ELSE attempt

\* lines 96-128
list_directory_entries(dir) == get_all_entries_in_path(dir)

NoListing == [called |-> FALSE, raised |-> FALSE, lines |-> <<>>]

\* the host calls list_directory_entries on the directory
ListDirectoryEntries ==
    /\ LET res == list_directory_entries(fsDir) IN
       fsResult' = [called |-> TRUE, raised |-> res.raised, lines |-> res.lines]
    /\ UNCHANGED <<config, pc, inv, log, result, fsDir>>

----------------------------------------------------------------------------
(* Specifications *)

Init ==
    /\ config \in Configs
    /\ pc = [p \in Slots |-> "idle"]
    /\ inv = [p \in Slots |-> NoInv]
    /\ log = [p \in Slots |-> <<>>]
    /\ result = [p \in Slots |-> NoResult]
    /\ fsDir = CHOOSE d \in Dirs : ~d.listed
    /\ fsResult = NoListing

\* the host serialises its calls: one invocation at a time, in slot 1
Next ==
    \/ Call(1)
    \/ HelperReturns(1)

\* the cluster-management bridge
Spec == Init /\ [][Next]_vars

InitFS ==
    /\ config = CHOOSE c \in Configs : c.pass = "admin"
    /\ pc = [p \in Slots |-> "idle"]
    /\ inv = [p \in Slots |-> NoInv]
    /\ log = [p \in Slots |-> <<>>]
    /\ result = [p \in Slots |-> NoResult]
    /\ fsDir \in Dirs
    /\ fsResult = NoListing

NextFS == ListDirectoryEntries

\* the filesystem listing bridge
SpecFS == InitFS /\ [][NextFS]_vars

\* the event loop interleaves the invocations in flight at their awaits
NextConcurrent ==
    \E p \in Slots : ConcurrentCall(p) \/ ConcurrentReturn(p)

\* the cluster-management bridge with two invocations in flight
SpecConcurrent == Init /\ [][NextConcurrent]_vars

----------------------------------------------------------------------------
(* Vocabulary of the properties *)

ManagementTools ==
    {"get_cluster_info", "get_cluster_services", "get_service_status",
     "get_service_components", "get_service_details",
     "get_service_configurations", "get_active_requests", "get_request_status",
     "start_service", "stop_service", "start_all_services", "stop_all_services"}

\* the invocation in slot p has returned to the host
Returned(p) == pc[p] = "done"

\* the tokens of a text
Tokens(text) == UNION {{text[i][j] : j \in 1..Len(text[i])} : i \in 1..Len(text)}

\* the text the invocation returned begins with the error marker
BeginsWithError(p) ==
    /\ result[p].kind = "text"
    /\ result[p].text # <<>>
    /\ result[p].text[1][1] = "Error:"

\* a helper call answered 200 or 202 with a body that parsed
Succeeded(e) ==
    e.o.k = "response" /\ e.o.status \in {200, 202} /\ e.o.parse = "ok"

\* a helper call whose HTTP request got a non-success status or failed in
\* the transport
RequestFailed(e) ==
    \/ e.o.k = "transport"
    \/ e.o.k = "response" /\ e.o.status \notin {200, 202}

\* an error value {"error": diagnostic} with a non-empty diagnostic
IsErrorValue(v) ==
    /\ v.t = "obj"
    /\ DOMAIN v.m = {"error"}
    /\ v.m["error"].t = "str"
    /\ v.m["error"].s # ""

\* the helper calls of slot p that sent a PUT, as indexes of its log
Puts(p) == {i \in 1..Len(log[p]) : log[p][i].req.method = "PUT"}

----------------------------------------------------------------------------
(* C1 *)

\* C1: every cluster-management tool ends by returning a text and never
\* raises to the host, whatever each of its HTTP requests comes to: an
\* invocation that has returned returned a non-empty text, and an invocation
\* awaits at most four helper calls before it returns.
C1_ToolsReturnText ==
    \A p \in Slots :
        /\ inv[p].tool \in ManagementTools \cup {""}
        /\ Len(log[p]) <= 4
        /\ pc[p] = "call" => Len(log[p]) < 4
        /\ Returned(p) => result[p].kind = "text" /\ result[p].text # <<>>

\* a tool whose body raised on a null body has returned its exception text
C1_Witness ==
    /\ Returned(1)
    /\ inv[1].tool = "get_request_status"
    /\ Len(log[1]) = 1
    /\ Succeeded(log[1][1])
    /\ log[1][1].value = JNull
    /\ BeginsWithError(1)
    /\ result[1].text[1][2] = " Exception occurred while "

----------------------------------------------------------------------------
(* C2 *)

\* C2 as claimed: one call of make_ambari_request issues exactly one HTTP
\* request and never raises; with status 200 or 202 it returns the parsed
\* JSON body, and for every other status or a transport failure an error
\* value with a non-empty diagnostic.
C2_AsClaimed ==
    \A p \in Slots : \A i \in 1..Len(log[p]) :
        LET e == log[p][i] IN
        /\ Len(e.sent) = 1
        /\ ~e.raised
        /\ IF e.o.k = "response" /\ e.o.status \in {200, 202}
           THEN e.o.parse = "ok" /\ e.value = e.o.body
           ELSE IsErrorValue(e.value)

\* C2 as amended: one call of make_ambari_request issues at most one HTTP
\* request, exactly one unless encoding the credentials fails before a
\* request is made, and never raises; with status 200 or 202 and a body that
\* parses it returns the parsed body; for every other status, for a 200 or
\* 202 body that does not parse, and for a transport or encoding failure it
\* returns an error value with a non-empty diagnostic.
C2_HelperContract ==
    \A p \in Slots : \A i \in 1..Len(log[p]) :
        LET e == log[p][i] IN
        /\ Len(e.sent) = (IF e.o.k = "encode" THEN 0 ELSE 1)
        /\ \A n \in 1..Len(e.sent) : e.sent[n].method = e.req.method
        /\ ~e.raised
        /\ IF Succeeded(e) THEN e.value = e.o.body ELSE IsErrorValue(e.value)

\* a 2xx status other than 200 and 202 came back as an error value
C2_Witness ==
    /\ Len(log[1]) >= 1
    /\ log[1][1].o.k = "response"
    /\ log[1][1].o.status = 204
    /\ log[1][1].value = Err("HTTP 204: boom")
    /\ Len(log[1][1].sent) = 1

----------------------------------------------------------------------------
(* C3 *)

LookupTools ==
    {"get_cluster_info", "get_cluster_services", "get_service_status",
     "get_service_components", "get_service_details", "get_request_status"}

\* C3: for every cluster/service lookup tool, whenever the HTTP request of
\* the lookup returns a non-success status or fails in the transport, the
\* text the tool returns begins with "Error:".
C3_LookupFailureIsError ==
    \A p \in Slots :
        /\ Returned(p)
        /\ inv[p].tool \in LookupTools
        /\ \E i \in 1..Len(log[p]) : RequestFailed(log[p][i])
        => BeginsWithError(p)

----------------------------------------------------------------------------
(* C4 *)

BulkTools == {"start_all_services", "stop_all_services"}

\* the bulk state change on /clusters/{name}/services
IsPrimaryPut(req) ==
    /\ req.method = "PUT"
    /\ req.endpoint = <<"/clusters/", config.cluster, "/services">>

\* the alternate form of the bulk state change, with a query filter
IsFallbackPut(req) ==
    /\ req.method = "PUT"
    /\ Len(req.endpoint) = 3
    /\ req.endpoint[3] \in {"/services?ServiceInfo/state=INSTALLED",
                            "/services?ServiceInfo/state=STARTED"}

\* the request id a response body carries, if it carries one
HasRequestId(v) ==
    /\ v.t = "obj" /\ "Requests" \in DOMAIN v.m
    /\ v.m["Requests"].t = "obj" /\ "id" \in DOMAIN v.m["Requests"].m

\* C4: in start_all_services and stop_all_services, when the primary bulk PUT
\* fails exactly one fallback PUT (the query-filter endpoint) is attempted and
\* no request follows it; if the fallback succeeds the text carries the
\* request id of the fallback's response, if it fails the text is an error
\* text with the fallback's diagnostic; when the primary PUT succeeds no
\* fallback is issued.
C4_SingleFallback ==
    \A p \in Slots : inv[p].tool \in BulkTools =>
        \A i \in Puts(p) :
            LET e == log[p][i]
                last == i = Len(log[p])
            IN
            /\ Len(e.sent) = 1
            /\ IsPrimaryPut(e.req) \/ IsFallbackPut(e.req)
            /\ IsPrimaryPut(e.req) /\ Succeeded(e) => last /\ Returned(p)
            /\ IsPrimaryPut(e.req) /\ ~Succeeded(e) =>
                 IF last
                 THEN pc[p] = "call" /\ IsFallbackPut(inv[p].req)
                 ELSE i + 1 = Len(log[p]) /\ IsFallbackPut(log[p][i + 1].req)
            /\ IsFallbackPut(e.req) =>
                 /\ last /\ Returned(p)
                 /\ i > 1 /\ IsPrimaryPut(log[p][i - 1].req)
                 /\ ~Succeeded(log[p][i - 1])
                 /\ Succeeded(e) /\ HasRequestId(e.value) =>
                      /\ ~BeginsWithError(p)
                      /\ \E n \in 1..Len(result[p].text) :
                           result[p].text[n] =
                               <<"Request ID: ", Str(e.value.m["Requests"].m["id"])>>
                 /\ ~Succeeded(e) =>
                      /\ BeginsWithError(p)
                      /\ e.value.m["error"].s \in Tokens(result[p].text)

\* the primary PUT failed and the fallback was accepted as request 8
C4_Witness ==
    /\ Returned(1)
    /\ inv[1].tool = "stop_all_services"
    /\ Len(log[1]) = 4
    /\ IsPrimaryPut(log[1][3].req) /\ ~Succeeded(log[1][3])
    /\ IsFallbackPut(log[1][4].req) /\ Succeeded(log[1][4])
    /\ <<"Request ID: ", "8">> \in {result[1].text[n] : n \in 1..Len(result[1].text)}

----------------------------------------------------------------------------
(* C5 *)

MutationTools ==
    {"start_service", "stop_service", "start_all_services", "stop_all_services"}

\* C5: in start_service, stop_service, start_all_services and
\* stop_all_services a PUT is issued only after the existence-check GET of
\* the invocation returned success; when the existence check returns a
\* non-success status or fails in the transport, the invocation issues no PUT
\* and returns an error text.
C5_CheckBeforePut ==
    \A p \in Slots : inv[p].tool \in MutationTools =>
        /\ Puts(p) # {} \/ (pc[p] = "call" /\ inv[p].req.method = "PUT") =>
             /\ Len(log[p]) >= 1
             /\ log[p][1].req.method = "GET"
             /\ Succeeded(log[p][1])
        /\ Len(log[p]) >= 1 /\ RequestFailed(log[p][1]) =>
             /\ Len(log[p]) = 1
             /\ log[p][1].req.method = "GET"
             /\ Returned(p)
             /\ BeginsWithError(p)

\* an existence check answered 404 ended the invocation without a PUT
C5_Witness ==
    /\ Returned(1)
    /\ inv[1].tool = "stop_service"
    /\ Len(log[1]) = 1
    /\ log[1][1].o.k = "response" /\ log[1][1].o.status = 404
    /\ Puts(1) = {}
    /\ BeginsWithError(1)

----------------------------------------------------------------------------
(* C6 *)

\* C6: in start_service and stop_service both failures are reported verbatim:
\* when the existence check fails, and when the state-change request fails,
\* the error text contains the diagnostic the helper produced for that
\* request.
C6_FailuresVerbatim ==
    \A p \in Slots :
        /\ Returned(p)
        /\ inv[p].tool \in {"start_service", "stop_service"}
        /\ Len(log[p]) >= 1
        /\ ~Succeeded(log[p][Len(log[p])])
        => /\ BeginsWithError(p)
           /\ log[p][Len(log[p])].value.m["error"].s \in Tokens(result[p].text)

----------------------------------------------------------------------------
(* C7 *)

\* the lines of a text
Lines(text) == {text[n] : n \in 1..Len(text)}

\* the service list of the response get_cluster_services got
ListedServices(p) == log[p][1].value.m["items"].items

\* get_cluster_services returned on a 200/202 response with a list of items
ServicesListed(p) ==
    /\ Returned(p)
    /\ inv[p].tool = "get_cluster_services"
    /\ Len(log[p]) = 1
    /\ Succeeded(log[p][1])
    /\ log[p][1].value.t = "obj"
    /\ "items" \in DOMAIN log[p][1].value.m
    /\ log[p][1].value.m["items"].t = "list"

\* a service item that is a JSON object whose ServiceInfo, if any, is one
WellFormedService(x) ==
    x.t = "obj" /\ ("ServiceInfo" \in DOMAIN x.m => x.m["ServiceInfo"].t = "obj")

\* the name of a service item, "Unknown" without one
ServiceNameOf(x) ==
    IF "ServiceInfo" \in DOMAIN x.m /\ "service_name" \in DOMAIN x.m["ServiceInfo"].m
    THEN x.m["ServiceInfo"].m["service_name"].s
    ELSE "Unknown"

\* the text holds exactly one block per item, numbered 1..n in list order,
\* under a header that counts n; for n = 0 it is the "no services" message
ServiceBlocksMatch(p) ==
    LET xs == ListedServices(p)
        n == Len(xs)
        text == result[p].text
    IN  IF n = 0
        THEN text = << <<"No", " results: No services installed in cluster '",
                         config.cluster, "'.">> >>
        ELSE /\ Len(text) = 2 + 4 * n
             /\ text[1][1] = "Service" /\ text[1][5] = ToString(n)
             /\ \A i \in 1..n :
                  /\ text[4 * i - 1][1] = ToString(i)
                  /\ text[4 * i - 1][2] = ". Service Name: "
                  /\ text[4 * i - 1][3] = ServiceNameOf(xs[i])
             /\ Cardinality({k \in 1..Len(text) :
                               Len(text[k]) > 1 /\ text[k][2] = ". Service Name: "}) = n

----------------------------------------------------------------------------
(* C8 *)

\* the description the table of get_service_status gives each of its tags
FixedDescription ==
    [STARTED |-> "Service is running and operational",
     INSTALLED |-> "Service is installed but not running",
     STARTING |-> "Service is in the process of starting",
     STOPPING |-> "Service is in the process of stopping",
     INSTALLING |-> "Service is being installed",
     INSTALL_FAILED |-> "Service installation failed",
     MAINTENANCE |-> "Service is in maintenance mode",
     UNKNOWN |-> "Service state cannot be determined"]

\* get_service_status returned on a 200/202 response that describes a service
StatusRead(p) ==
    /\ Returned(p)
    /\ inv[p].tool = "get_service_status"
    /\ Len(log[p]) = 1
    /\ Succeeded(log[p][1])
    /\ log[p][1].value.t = "obj"
    /\ "ServiceInfo" \in DOMAIN log[p][1].value.m
    /\ log[p][1].value.m["ServiceInfo"].t = "obj"

DescriptionLines(text) ==
    {k \in 1..Len(text) : text[k][1] = "Description: "}

\* C8: for get_service_status on a successful response, a state tag among
\* the eight keys of the description table appears in the output with its
\* fixed description; for any other tag, and without a state field, the
\* output has no Description line.
C8_StateDescription ==
    \A p \in Slots : StatusRead(p) =>
        LET info == log[p][1].value.m["ServiceInfo"].m
            text == result[p].text
        IN  IF "state" \in DOMAIN info /\ info["state"].t = "str"
               /\ info["state"].s \in DOMAIN FixedDescription
            THEN /\ <<"Current State: ", info["state"].s>> \in Lines(text)
                 /\ <<"Description: ", FixedDescription[info["state"].s]>> \in Lines(text)
                 /\ Cardinality(DescriptionLines(text)) = 1
            ELSE DescriptionLines(text) = {}

\* a service in state INSTALL_FAILED was described
C8_Witness ==
    /\ StatusRead(1)
    /\ "state" \in DOMAIN log[1][1].value.m["ServiceInfo"].m
    /\ log[1][1].value.m["ServiceInfo"].m["state"] = JStr("INSTALL_FAILED")
    /\ <<"Description: ", "Service installation failed">> \in Lines(result[1].text)

----------------------------------------------------------------------------
(* C9 *)

\* ".", "..", then the entries in the order os.listdir gave them
Enumerated(dir) == <<".", "..">> \o dir.names

\* C9: for list_directory_entries on a directory whose enumeration succeeds
\* with n entries, the result has n + 2 lines, line k for the k-th of ".",
\* "..", and the entries in enumeration order; an entry whose stat fails has
\* an "[ERROR] <name>: ..." line at its own position, and the lines of the
\* other entries are what their own stat gives (an entry whose owner or
\* group has no name gets an error line of its own as well).
C9_OneLinePerEntry ==
    fsResult.called /\ fsDir.listed =>
        /\ ~fsResult.raised
        /\ Len(fsResult.lines) = Len(fsDir.names) + 2
        /\ \A k \in 1..Len(Enumerated(fsDir)) :
             LET entry == Enumerated(fsDir)[k]
                 st == fsDir.stat[entry]
                 line == fsResult.lines[k]
             IN  /\ ~st.ok => line = <<"[ERROR]", " ", entry, ": ", st.msg>>
                 /\ st.ok /\ st.uid \in {0, 1000} /\ st.gid \in {0, 1000} =>
                      /\ Len(line) = 13
                      /\ line[1] = st.mode
                      /\ line[3] = ToString(st.nlink)
                      /\ line[9] = ToString(st.size)
                      /\ line[13] = entry
                 /\ st.ok /\ ~(st.uid \in {0, 1000} /\ st.gid \in {0, 1000}) =>
                      /\ Len(line) = 5
                      /\ line[1] = "[ERROR]"
                      /\ line[3] = entry

\* of two entries the first could not be read and the second was listed
C9_Witness ==
    /\ fsResult.called /\ fsDir.listed
    /\ fsDir.names = <<"b", "a">>
    /\ fsDir.stat["."].ok /\ fsDir.stat[".."].ok
    /\ ~fsDir.stat["b"].ok
    /\ fsDir.stat["a"].ok /\ fsDir.stat["a"].uid = 1000 /\ fsDir.stat["a"].gid = 1000
    /\ fsResult.lines[3][1] = "[ERROR]"
    /\ fsResult.lines[4][13] = "a"

----------------------------------------------------------------------------
(* C10 *)

----------------------------------------------------------------------------
(* C11 *)

\* the services get_service_configurations has config types for
Whitelisted == {"HDFS", "YARN", "HBASE"}

\* get_service_configurations returned for a whitelisted service
ConfigsRead(p) ==
    /\ Returned(p)
    /\ inv[p].tool = "get_service_configurations"
    /\ Upper(inv[p].arg) \in Whitelisted

\* the tag-scoped fetches of the invocation that succeeded after a per-type
\* fetch that succeeded, as indexes of its log
TagFetches(p) ==
    {i \in 2..Len(log[p]) :
        /\ log[p][i].req.kind = "config"
        /\ Succeeded(log[p][i])
        /\ log[p][i - 1].req.kind = "config_types"
        /\ Succeeded(log[p][i - 1])}

\* the config type a fetch asks for
ConfigTypeOf(e) == e.req.endpoint[4]

\* the items of a response that are JSON objects
ObjectItems(v) ==
    IF v.t = "obj" /\ "items" \in DOMAIN v.m /\ v.m["items"].t = "list"
    THEN {v.m["items"].items[n] : n \in 1..Len(v.m["items"].items)} \cap
         {x \in {v.m["items"].items[n] : n \in 1..Len(v.m["items"].items)} : x.t = "obj"}
    ELSE {}

\* the key/value pairs of the properties in a response
PairsOf(v) ==
    UNION {IF "properties" \in DOMAIN x.m /\ x.m["properties"].t = "obj"
           THEN {<<k, x.m["properties"].m[k]>> : k \in DOMAIN x.m["properties"].m}
           ELSE {} : x \in ObjectItems(v)}

\* the lines of the text that belong to config type t: those after its
\* "[t] Latest tag" line and before the next config type's line
SectionOf(text, t) ==
    {k \in 1..Len(text) :
        \E h \in 1..(k - 1) :
            /\ text[h][1] = "[" /\ text[h][2] = t
            /\ \A j \in (h + 1)..k : text[j][1] # "["}

\* the "key: value" property lines of config type t, as pairs
EmittedPairs(text, t) ==
    {<<text[k][2], text[k][4]>> :
        k \in {n \in SectionOf(text, t) : Len(text[n]) = 4 /\ text[n][1] = "    "}}

\* every pair of the tag-scoped response is emitted, and nothing else
RoundTrip(p) ==
    \A i \in TagFetches(p) :
        EmittedPairs(result[p].text, ConfigTypeOf(log[p][i]))
            = {<<pr[1], Str(pr[2])>> : pr \in PairsOf(log[p][i].value)}

\* a per-type response the tool reads without an exception: falsy, or an
\* object whose items are falsy or a list ending in an object
ReadableListing(v) ==
    \/ ~Truthy(v)
    \/ /\ v.t = "obj"
       /\ \/ "items" \notin DOMAIN v.m
          \/ ~Truthy(v.m["items"])
          \/ /\ v.m["items"].t = "list"
             /\ v.m["items"].items[Len(v.m["items"].items)].t = "obj"

\* a tag-scoped response the tool reads without an exception: falsy, or an
\* object whose items are falsy or a list of objects with object (or falsy)
\* properties and properties_attributes
ReadableConfig(v) ==
    \/ ~Truthy(v)
    \/ /\ v.t = "obj"
       /\ \/ "items" \notin DOMAIN v.m
          \/ ~Truthy(v.m["items"])
          \/ /\ v.m["items"].t = "list"
             /\ \A n \in 1..Len(v.m["items"].items) :
                  LET x == v.m["items"].items[n] IN
                  /\ x.t = "obj"
                  /\ \A f \in {"properties", "properties_attributes"} \cap DOMAIN x.m :
                       ~Truthy(x.m[f]) \/ x.m[f].t = "obj"
                  /\ "properties_attributes" \in DOMAIN x.m
                     /\ x.m["properties_attributes"].t = "obj" =>
                       \A a \in DOMAIN x.m["properties_attributes"].m :
                           x.m["properties_attributes"].m[a].t = "obj"

\* every response of the invocation is one the tool reads without exception
AllReadable(p) ==
    \A i \in 1..Len(log[p]) :
        IF log[p][i].req.kind = "config_types"
        THEN ReadableListing(log[p][i].value)
        ELSE ReadableConfig(log[p][i].value)

----------------------------------------------------------------------------
(* C12 *)

\* get_service_configurations returned for a service outside the whitelist
UnknownServiceRead(p) ==
    /\ Returned(p)
    /\ inv[p].tool = "get_service_configurations"
    /\ Upper(inv[p].arg) \notin Whitelisted

\* C12: for get_service_configurations with a service name that, compared
\* case-insensitively, is not HDFS, YARN or HBASE, the tool issues no HTTP
\* request and returns a "no config types defined" message whose text is
\* not marked as an error.
C12_UnknownServiceIsNoError ==
    \A p \in Slots : UnknownServiceRead(p) =>
        /\ log[p] = <<>>
        /\ result[p].kind = "text"
        /\ \E tok \in Tokens(result[p].text) :
              tok = " No config types defined for service '"
        /\ ~BeginsWithError(p)

\* the part of C12 the code keeps: no request, and the message
C12_NoRequestForUnknownService ==
    \A p \in Slots : UnknownServiceRead(p) =>
        /\ log[p] = <<>>
        /\ result[p].text = << <<"Error:", " No config types defined for service '",
                                 inv[p].arg, "'.">> >>

----------------------------------------------------------------------------
(* C13 *)

\* get_active_requests returned
ActiveRead(p) == Returned(p) /\ inv[p].tool = "get_active_requests"

\* the fetch filtered by status, and the unfiltered one sorted by id
IsFilteredFetch(req) ==
    /\ req.method = "GET"
    /\ req.endpoint[4] = "&Requests/request_status=IN_PROGRESS"

IsUnfilteredFetch(req) ==
    /\ req.method = "GET"
    /\ req.endpoint[4] = "&sortBy=Requests/id.desc"

\* the items of a response, none when it has no list of items
ItemsIn(v) ==
    IF v.t = "obj" /\ "items" \in DOMAIN v.m /\ v.m["items"].t = "list"
    THEN v.m["items"].items
    ELSE <<>>

\* an item whose status tag is one of the four active tags
IsActiveItem(x) ==
    /\ x.t = "obj"
    /\ "Requests" \in DOMAIN x.m
    /\ x.m["Requests"].t = "obj"
    /\ "request_status" \in DOMAIN x.m["Requests"].m
    /\ x.m["Requests"].m["request_status"].t = "str"
    /\ x.m["Requests"].m["request_status"].s
         \in {"IN_PROGRESS", "PENDING", "QUEUED", "STARTED"}

\* the text lists exactly the active items of xs, in their order, under a
\* header that counts them; with no active item it lists no request
ListsActive(text, xs) ==
    LET act == SelectSeq(xs, IsActiveItem)
        n == Len(act)
    IN  IF n = 0
        THEN \A k \in 1..Len(text) : Len(text[k]) > 1 => text[k][2] # ". Request ID: "
        ELSE /\ Len(text) = 3 + 6 * n
             /\ text[1][1] = "Active" /\ text[1][5] = ToString(n)
             /\ \A i \in 1..n :
                  /\ text[6 * i - 3] = <<ToString(i), ". Request ID: ",
                                         Str(act[i].m["Requests"].m["id"])>>
                  /\ text[6 * i - 2] = <<"   Status: ",
                                         act[i].m["Requests"].m["request_status"].s>>
             /\ Cardinality({k \in 1..Len(text) :
                               Len(text[k]) > 1 /\ text[k][2] = ". Request ID: "}) = n

\* the order of the fetches: the filtered one first; the unfiltered one once,
\* and exactly when the filtered one returned an error
FetchOrder(p) ==
    /\ Len(log[p]) \in {1, 2}
    /\ IsFilteredFetch(log[p][1].req)
    /\ Len(log[p]) = 2 <=> ~Succeeded(log[p][1])
    /\ Len(log[p]) = 2 => IsUnfilteredFetch(log[p][2].req)

\* both fetches failed: an error text with the diagnostic of the second
BothFailed(p) ==
    ~Succeeded(log[p][Len(log[p])]) =>
        /\ Len(log[p]) = 2
        /\ BeginsWithError(p)
        /\ log[p][2].value.m["error"].s \in Tokens(result[p].text)

\* a response whose items the tool can walk: every item an object whose
\* Requests member, when present, is an object
WalkableRequests(v) ==
    /\ v.t # "null"
    /\ v.t = "obj" /\ "items" \in DOMAIN v.m =>
         /\ v.m["items"].t = "list"
         /\ \A n \in 1..Len(v.m["items"].items) :
              LET x == v.m["items"].items[n] IN
              x.t = "obj" /\ ("Requests" \in DOMAIN x.m => x.m["Requests"].t = "obj")

----------------------------------------------------------------------------
(* C14 *)

\* get_service_details returned
DetailsRead(p) == Returned(p) /\ inv[p].tool = "get_service_details"

\* C14: get_service_details reads the cluster, then the service detail, and
\* fails fast: when the cluster read returns an error the tool returns an
\* error text without issuing the service-detail read, and when the
\* service-detail read returns an error the tool returns an error text
\* instead of a detail block.
C14_FailsFast ==
    \A p \in Slots : DetailsRead(p) =>
        /\ Len(log[p]) >= 1
        /\ log[p][1].req.endpoint = <<"/clusters/", config.cluster>>
        /\ ~Succeeded(log[p][1]) => Len(log[p]) = 1 /\ BeginsWithError(p)
        /\ Len(log[p]) = 2 /\ ~Succeeded(log[p][2]) =>
             /\ BeginsWithError(p)
             /\ result[p].text[1][1] # "Detailed"

\* what the code does instead: the service-detail read follows every cluster
\* read that did not return null, failed ones included, and a failed
\* service-detail read yields a detail block
C14_ReadsOnAfterFailure ==
    \A p \in Slots : DetailsRead(p) =>
        /\ ~Succeeded(log[p][1]) => Len(log[p]) = 2
        /\ Len(log[p]) = 2 /\ ~Succeeded(log[p][2]) =>
             result[p].text[1] = <<"Detailed", " Service Information:">>

----------------------------------------------------------------------------
(* C15 *)

\* the HTTP requests the invocation in slot p has sent
RECURSIVE SentBy(_)
SentBy(entries) ==
    IF entries = <<>> THEN 0
    ELSE Len(Head(entries).sent) + SentBy(Tail(entries))

\* the tools that issue one request
SingleRequestTools ==
    {"get_cluster_info", "get_cluster_services", "get_service_status",
     "get_service_components", "get_request_status"}

\* C15 as claimed: every operation built on the request helper issues one
\* HTTP request per invocation, or two for an existence check followed by a
\* mutation, plus at most the one fallback request: no invocation, of
\* stop_all_services and get_service_configurations in particular, issues
\* more than these three.
C15_AsClaimed ==
    \A p \in Slots : Returned(p) => SentBy(log[p]) <= 3

\* C15 as amended: an invocation issues at most one request for the five
\* single-read tools; at most two for get_service_details (two reads),
\* get_active_requests (one read and its fallback), start_service and
\* stop_service (check and mutation); at most three for start_all_services
\* (check, mutation, fallback); at most four for stop_all_services (cluster
\* check, read of the started services, mutation, fallback) and for
\* get_service_configurations (two reads for each of the two config types),
\* which issues none for a service outside the whitelist.
C15_RequestsPerInvocation ==
    \A p \in Slots : Returned(p) =>
        LET n == SentBy(log[p])
            tool == inv[p].tool
        IN  /\ n <= Len(log[p])
            /\ tool \in SingleRequestTools => Len(log[p]) = 1
            /\ tool \in {"get_service_details", "get_active_requests",
                         "start_service", "stop_service"} => Len(log[p]) \in 1..2
            /\ tool = "start_all_services" => Len(log[p]) \in 1..3
            /\ tool = "stop_all_services" => Len(log[p]) \in 1..4
            /\ tool = "get_service_configurations" =>
                 IF Upper(inv[p].arg) \in Whitelisted
                 THEN Len(log[p]) \in 1..4
                 ELSE Len(log[p]) = 0

\* stop_all_services sent four requests, and get_service_configurations can
\* too
C15_Witness ==
    /\ Returned(1)
    /\ inv[1].tool = "stop_all_services"
    /\ SentBy(log[1]) = 4
    /\ log[1][4].req.method = "PUT"

----------------------------------------------------------------------------
(* C16 *)

\* the PUT requests the invocation in slot p has sent
SentPuts(p) ==
    {h \in UNION {{log[p][i].sent[n] : n \in 1..Len(log[p][i].sent)} :
                     i \in 1..Len(log[p])} : h.method = "PUT"}

\* C16: every mutation (PUT) request a tool issues, the primary and the
\* fallback request of start_all_services and stop_all_services and the
\* request of start_service and stop_service, sends a JSON body with the two
\* top-level keys "RequestInfo" and "Body".
C16_MutationBodyShape ==
    \A p \in Slots : \A h \in SentPuts(p) :
        /\ h.body.t = "obj"
        /\ DOMAIN h.body.m = {"RequestInfo", "Body"}

\* what holds instead: the primary requests have that shape, and the
\* fallback requests send the bare {"ServiceInfo": {"state": ...}}
C16_FallbackBodyIsBare ==
    \A p \in Slots : \A i \in 1..Len(log[p]) : \A n \in 1..Len(log[p][i].sent) :
        LET h == log[p][i].sent[n] IN
        h.method = "PUT" =>
            IF inv[p].tool \in BulkTools /\ IsFallbackPut(log[p][i].req)
            THEN DOMAIN h.body.m = {"ServiceInfo"}
            ELSE DOMAIN h.body.m = {"RequestInfo", "Body"}

----------------------------------------------------------------------------
(* C17 *)

\* the desired state a PUT body carries: ServiceInfo/state, under "Body"
\* when the body has one
DesiredState(body) ==
    IF "Body" \in DOMAIN body.m
    THEN body.m["Body"].m["ServiceInfo"].m["state"]
    ELSE body.m["ServiceInfo"].m["state"]

\* C17: every mutation request of start_service and start_all_services,
\* primary and fallback, carries desired state STARTED, and every mutation
\* request of stop_service and stop_all_services carries INSTALLED; only
\* these four tools send mutation requests.
C17_DesiredState ==
    \A p \in Slots : \A h \in SentPuts(p) :
        /\ inv[p].tool \in {"start_service", "start_all_services",
                            "stop_service", "stop_all_services"}
        /\ inv[p].tool \in {"start_service", "start_all_services"} =>
             DesiredState(h.body) = JStr("STARTED")
        /\ inv[p].tool \in {"stop_service", "stop_all_services"} =>
             DesiredState(h.body) = JStr("INSTALLED")

\* stop_all_services sent its primary and its fallback request, both with
\* desired state INSTALLED
C17_Witness ==
    /\ Returned(1)
    /\ inv[1].tool = "stop_all_services"
    /\ Cardinality(SentPuts(1)) = 2
    /\ \A h \in SentPuts(1) : DesiredState(h.body) = JStr("INSTALLED")

----------------------------------------------------------------------------
(* C18 *)

\* the tool run alone from segment seg, its helper calls answered in turn by
\* the outcomes of entries
RECURSIVE RunAlone(_, _, _, _)
RunAlone(tool, arg, seg, entries) ==
    IF seg.op # "req" \/ entries = <<>>
    THEN seg
    ELSE LET h == make_ambari_request(seg.req.endpoint, seg.req.method,
                                      seg.req.data, Head(entries).o)
         IN  RunAlone(tool, arg,
                      IF h.raised THEN Raise(h.exc)
                      ELSE Dispatch(tool, seg.lbl, arg, seg.loc, h.value),
                      Tail(entries))

\* where the invocation of slot p would stand had it run alone with the
\* answers it got
Alone(p) ==
    RunAlone(inv[p].tool, inv[p].arg,
             Dispatch(inv[p].tool, "start", inv[p].arg, NoLoc, JNull), log[p])

\* the invocation of slot p stands where it would had it run alone: it
\* awaits the same request, or it has returned the same text
AsIfAlone(p) ==
    pc[p] # "idle" =>
        IF pc[p] = "call"
        THEN Alone(p).op = "req" /\ Alone(p).req = inv[p].req
        ELSE /\ Alone(p).op = "ret"
             /\ result[p] = [kind |-> "text", text |-> Alone(p).text]

----------------------------------------------------------------------------
(* C19 *)

\* how often event e occurs among the first n events
Count(events, e, n) == Cardinality({i \in 1..n : events[i] = e})

\* every scope entered was left, and none was left before it was entered
Released(events) ==
    \A kind \in {"session", "response"} :
        /\ Count(events, "enter_" \o kind, Len(events))
             = Count(events, "exit_" \o kind, Len(events))
        /\ \A n \in 1..Len(events) :
             Count(events, "exit_" \o kind, n) <= Count(events, "enter_" \o kind, n)

\* the response scope lies inside the session scope
Nested(events) ==
    \A n \in 1..Len(events) :
        events[n] \in {"enter_response", "exit_response"} =>
            Count(events, "enter_session", n) > Count(events, "exit_session", n)

\* C19: each helper call opens its own client session, one for the request
\* it sends, and has released it when it returns, on every exit path:
\* success, non-success status, JSON parse failure and transport failure.
\* No scope is open once a call has returned, so none is open after an
\* invocation has returned and none is carried into the next call.
C19_ScopesReleased ==
    \A p \in Slots : \A i \in 1..Len(log[p]) :
        LET e == log[p][i] IN
        /\ Released(e.events)
        /\ Nested(e.events)
        /\ Count(e.events, "enter_session", Len(e.events)) = Len(e.sent)
        /\ e.o.k # "encode" => Len(e.sent) = 1
        /\ e.o.k = "response" =>
             Count(e.events, "enter_response", Len(e.events)) = 1

\* stop_all_services returned after four helper calls: two successes, a
\* non-success status and a transport failure, each with its session released
C19_Witness ==
    /\ Returned(1)
    /\ inv[1].tool = "stop_all_services"
    /\ Len(log[1]) = 4
    /\ Succeeded(log[1][1]) /\ Succeeded(log[1][2])
    /\ log[1][3].o.k = "response" /\ log[1][3].o.status = 404
    /\ log[1][4].o.k = "transport"
    /\ \A i \in 1..4 : Released(log[1][i].events) /\ log[1][i].events # <<>>

----------------------------------------------------------------------------
(* C20 *)

\* the place of the tags of the listings in lexical order
LexRank == [version1 |-> 1, version2 |-> 2]

\* the per-type fetches of the invocation that returned a list of tagged
\* items, as indexes of its log
TaggedListings(p) ==
    {i \in 1..Len(log[p]) :
        /\ log[p][i].req.kind = "config_types"
        /\ Succeeded(log[p][i])
        /\ ItemsIn(log[p][i].value) # <<>>
        /\ \A n \in 1..Len(ItemsIn(log[p][i].value)) :
             LET x == ItemsIn(log[p][i].value)[n] IN
             /\ x.t = "obj"
             /\ "tag" \in DOMAIN x.m
             /\ x.m["tag"].t = "str"
             /\ x.m["tag"].s \in DOMAIN LexRank}

\* the tag of the lexically last item of a list of tagged items
LexLastTag(xs) ==
    LET tags == {xs[n].m["tag"].s : n \in 1..Len(xs)}
    IN  CHOOSE t \in tags : \A u \in tags : LexRank[u] <= LexRank[t]

\* the tag the invocation took from listing i: the one its next fetch asks
\* for, which is also the one its report calls "Latest tag"
TagTaken(p, i) ==
    IF i < Len(log[p]) THEN log[p][i + 1].req.endpoint[6] ELSE inv[p].req.endpoint[6]

\* the listing was followed by a tag-scoped fetch
TagFetched(p, i) ==
    IF i < Len(log[p]) THEN log[p][i + 1].req.kind = "config"
    ELSE pc[p] = "call" /\ inv[p].req.kind = "config"

\* C20: in get_service_configurations, for each config type the tag reported
\* as "latest" and used in the tag-scoped fetch is the tag of the lexically
\* last item of the first fetch's items, whatever their order in the response.
C20_LatestIsLexicallyLast ==
    \A p \in Slots : inv[p].tool = "get_service_configurations" =>
        \A i \in TaggedListings(p) :
            /\ TagFetched(p, i)
            /\ TagTaken(p, i) = LexLastTag(ItemsIn(log[p][i].value))
            /\ Returned(p) /\ ~BeginsWithError(p) =>
                 \E k \in 1..Len(result[p].text) :
                     /\ Len(result[p].text[k]) >= 4
                     /\ result[p].text[k][1] = "["
                     /\ result[p].text[k][2] = ConfigTypeOf(log[p][i])
                     /\ result[p].text[k][4] = LexLastTag(ItemsIn(log[p][i].value))

\* what the code does: it takes the tag of the item that comes last in the
\* response
C20_LatestIsLastInResponse ==
    \A p \in Slots : inv[p].tool = "get_service_configurations" =>
        \A i \in TaggedListings(p) :
            /\ TagFetched(p, i)
            /\ TagTaken(p, i) =
                 ItemsIn(log[p][i].value)[Len(ItemsIn(log[p][i].value))].m["tag"].s

----------------------------------------------------------------------------
(* C21 *)

\* the config types of the service the invocation was called for
ConfigTypesOf(p) ==
    LET types == [HDFS |-> {"hdfs-site", "core-site"},
                  YARN |-> {"yarn-site", "core-site"},
                  HBASE |-> {"hbase-site", "core-site"}]
    IN  types[Upper(inv[p].arg)]

\* config type t was fetched, and the report has a line for it
Rendered(p, t) ==
    /\ \E i \in 1..Len(log[p]) :
          log[p][i].req.kind = "config_types" /\ ConfigTypeOf(log[p][i]) = t
    /\ \E k \in 1..Len(result[p].text) :
          /\ Len(result[p].text[k]) >= 3
          /\ result[p].text[k][1] = "["
          /\ result[p].text[k][2] = t

\* C21: in get_service_configurations a failure on one config type or one
\* configuration tag, be it an error response on either fetch or a malformed
\* item in a successful response, is isolated to that item: the output still
\* has the results of the config types before it, and the remaining config
\* types are still fetched and rendered.
C21_FailuresIsolated ==
    \A p \in Slots : ConfigsRead(p) =>
        \A t \in ConfigTypesOf(p) : Rendered(p, t)

\* what the code isolates: error responses.  When every response is one the
\* tool reads without an exception, failed fetches included, every config
\* type is fetched and rendered.
C21_ErrorResponsesIsolated ==
    \A p \in Slots : ConfigsRead(p) /\ AllReadable(p) =>
        \A t \in ConfigTypesOf(p) : Rendered(p, t)

\* what it does not: a malformed item anywhere leaves the one-line exception
\* text, and the config types after it are not fetched
C21_MalformedItemAborts ==
    \A p \in Slots : ConfigsRead(p) /\ ~AllReadable(p) =>
        /\ BeginsWithError(p)
        /\ Len(result[p].text) = 1
        /\ ~ReadableListing(log[p][Len(log[p])].value)
           \/ ~ReadableConfig(log[p][Len(log[p])].value)

----------------------------------------------------------------------------
(* C22 *)

\* the entries of a listed directory whose stat succeeds but whose owner or
\* group has no name, as positions in the listing
Unresolved(dir) ==
    {k \in 1..Len(Enumerated(dir)) :
        LET st == dir.stat[Enumerated(dir)[k]] IN
        st.ok /\ (st.uid \notin {0, 1000} \/ st.gid \notin {0, 1000})}

\* C22: in list_directory_entries, an entry whose stat succeeds but whose
\* owner uid or group gid has no name still gets a normally formatted line,
\* with the numeric id in place of the name, and not an error line.
C22_NumericIdFallback ==
    fsResult.called /\ fsDir.listed =>
        \A k \in Unresolved(fsDir) :
            LET entry == Enumerated(fsDir)[k]
                st == fsDir.stat[entry]
                line == fsResult.lines[k]
            IN  /\ line[1] # "[ERROR]"
                /\ Len(line) = 13
                /\ line[1] = st.mode
                /\ st.uid \notin {0, 1000} => line[5] = ToString(st.uid)
                /\ st.gid \notin {0, 1000} => line[7] = ToString(st.gid)
                /\ line[13] = entry

\* what the code does: the lookup raises, and the entry gets an error line
C22_UnresolvedIdIsErrorLine ==
    fsResult.called /\ fsDir.listed =>
        \A k \in Unresolved(fsDir) :
            LET entry == Enumerated(fsDir)[k]
                st == fsDir.stat[entry]
            IN  fsResult.lines[k] =
                  <<"[ERROR]", " ", entry, ": ",
                    IF st.uid \notin {0, 1000}
                    THEN "getpwuid(): uid not found"
                    ELSE "getgrgid(): gid not found">>

----------------------------------------------------------------------------
(* C23 *)

ReadOnlyTools ==
    {"get_cluster_info", "get_cluster_services", "get_service_status",
     "get_service_details", "get_service_components",
     "get_service_configurations", "get_active_requests", "get_request_status"}

\* the HTTP requests the invocation in slot p has sent
SentRequests(p) ==
    UNION {{log[p][i].sent[n] : n \in 1..Len(log[p][i].sent)} : i \in 1..Len(log[p])}

\* C23: the read-only tools issue only GET requests without a payload, on
\* every execution path, error and fallback paths included; only
\* start_service, stop_service, start_all_services and stop_all_services
\* ever issue a PUT.
C23_ReadOnlyToolsOnlyGet ==
    \A p \in Slots :
        /\ \A h \in SentRequests(p) :
             /\ h.method \in {"GET", "PUT"}
             /\ inv[p].tool \in ReadOnlyTools =>
                  h.method = "GET" /\ h.body = [t |-> "null"]
             /\ h.method = "PUT" =>
                  inv[p].tool \in {"start_service", "stop_service",
                                   "start_all_services", "stop_all_services"}
        /\ pc[p] = "call" /\ inv[p].tool \in ReadOnlyTools =>
             inv[p].req.method = "GET" /\ inv[p].req.data = [t |-> "null"]

\* get_active_requests returned an error after its filtered fetch and its
\* fallback fetch both failed: two GET requests, neither with a payload
C23_Witness ==
    /\ Returned(1)
    /\ inv[1].tool = "get_active_requests"
    /\ Len(log[1]) = 2
    /\ BeginsWithError(1)
    /\ Cardinality(SentRequests(1)) = 2
    /\ \A h \in SentRequests(1) : h.method = "GET" /\ h.body = [t |-> "null"]

----------------------------------------------------------------------------
(* C24 *)

\* stop_all_services returned after its cluster check succeeded and its
\* fetch of the started services was answered
StartedServicesFetched(p) ==
    /\ Returned(p)
    /\ inv[p].tool = "stop_all_services"
    /\ Len(log[p]) >= 2
    /\ Succeeded(log[p][1])
    /\ log[p][2].req.method = "GET"
    /\ log[p][2].req.endpoint[3] = "/services?ServiceInfo/state=STARTED"

\* a response that is an object with an empty list of items, or with none
NoItems(v) ==
    /\ v.t = "obj"
    /\ "items" \in DOMAIN v.m => v.m["items"] \in {[t |-> "list", items |-> <<>>],
                                                   [t |-> "null"]}

\* C24: in stop_all_services, when the cluster check succeeds and the fetch
\* of the started services succeeds with an empty or absent item list, the
\* tool issues no state-change request and returns the "no services are
\* currently running" message; when that fetch fails, the tool returns an
\* error text (it begins "Error retrieving services:" and carries the
\* diagnostic) and issues no state-change request either.
C24_NothingToStop ==
    \A p \in Slots : StartedServicesFetched(p) =>
        /\ Succeeded(log[p][2]) /\ NoItems(log[p][2].value) =>
             /\ Len(log[p]) = 2
             /\ Puts(p) = {}
             /\ result[p].text =
                  << <<"No", " services are currently running. All services are already stopped.">> >>
        /\ ~Succeeded(log[p][2]) =>
             /\ Len(log[p]) = 2
             /\ Puts(p) = {}
             /\ result[p].text =
                  << <<"Error", " retrieving services: ", log[p][2].value.m["error"].s>> >>

\* the cluster check succeeded and the list of started services came back
\* empty: the tool returned after two reads
C24_Witness ==
    /\ StartedServicesFetched(1)
    /\ Succeeded(log[1][2])
    /\ log[1][2].value = [t |-> "obj", m |-> [items |-> [t |-> "list", items |-> <<>>]]]
    /\ Len(log[1]) = 2
    /\ result[1].text[1][1] = "No"

====
